---- MODULE Spec2Model ----
(***************************************************************************)
(* Model of turbo-tasks-fs read_glob.rs: the recursive glob walk in its    *)
(* two modes (read_glob: accumulate results, track_glob: register          *)
(* dependencies and return a Completion), run as memoized tasks over a     *)
(* filesystem that a client mutates between strongly consistent reads.     *)
(*                                                                         *)
(* Strings (RcStr paths, segments, prefixes) are sequences of one          *)
(* character strings, so that joining with "/", splitting, prefix tests    *)
(* and starts_with('.') are computed rather than assumed.                  *)
(*                                                                         *)
(* A second specification, TemplateSpec, models load_next_js_template of   *)
(* next-core util.rs over the variable tpl.                                *)
(***************************************************************************)
EXTENDS Naturals, Sequences, FiniteSets, TLC

VARIABLES
    fs,        \* the filesystem: path -> [kind, target, content]
    glob,      \* the compiled glob of this run
    root,      \* the key of the top-level task (read_glob / track_glob call)
    creatable, \* paths the client may create in this run
    tasks,     \* the memoized tasks: key -> task record
    obs,       \* results of the client's strongly consistent reads of root
    muts,      \* the filesystem mutations the client applied, in order
    seen,      \* per observation: the reads the walk had registered
    tpl        \* the state of a load_next_js_template call (util.rs)

vars == <<fs, glob, root, creatable, tasks, obs, muts, seen, tpl>>

(***************************************************************************)
(* Bounds                                                                  *)
(***************************************************************************)
\* Longest prefix, in segments, a sub-walk may be keyed by before the model
\* stops unfolding the chain of sub-walks.
MaxDepth == 3
\* Number of mutations the client applies between strongly consistent reads.
MaxMutations == 2
\* Number of symlink hops the filesystem follows before giving up.
MaxHops == 2

(***************************************************************************)
(* Strings and paths                                                       *)
(***************************************************************************)
Slash == <<"/">>

\* Mutant of EntryPath: the prefix is joined without the test for the
\* empty prefix.
EntryPathLeadingSlash(prefix, segment) == prefix \o Slash \o segment

\* Mutant of EntryPath: the prefix is dropped.
EntryPathNoPrefix(prefix, segment) == segment

\* line 48-52 / 141-145: prefix.is_empty() ? segment : format!("{prefix}/{segment}")
EntryPath(prefix, segment) ==
    IF prefix = <<>> THEN segment ELSE prefix \o Slash \o segment

\* line 136: segment.starts_with('.')
StartsWithDot(segment) == Len(segment) > 0 /\ segment[1] = "."

\* Index of the first "/" of s, 0 when there is none.
RECURSIVE FirstSlashFrom(_, _)
FirstSlashFrom(s, i) ==
    IF i > Len(s) THEN 0 ELSE IF s[i] = "/" THEN i ELSE FirstSlashFrom(s, i + 1)

FirstSlash(s) == FirstSlashFrom(s, 1)

\* Index of the last "/" of s, 0 when there is none.
RECURSIVE LastSlashFrom(_, _)
LastSlashFrom(s, i) ==
    IF i = 0 THEN 0 ELSE IF s[i] = "/" THEN i ELSE LastSlashFrom(s, i - 1)

LastSlash(s) == LastSlashFrom(s, Len(s))

\* The "/"-separated segments of a path.
RECURSIVE Segments(_)
Segments(s) ==
    LET i == FirstSlash(s) IN
    IF i = 0 THEN <<s>>
    ELSE <<SubSeq(s, 1, i - 1)>> \o Segments(SubSeq(s, i + 1, Len(s)))

\* Number of segments of a prefix ("" has none).
Depth(prefix) == IF prefix = <<>> THEN 0 ELSE Len(Segments(prefix))

\* FileSystemPath::parent and file_name of a filesystem path.
Parent(p) == LET i == LastSlash(p) IN IF i = 0 THEN <<>> ELSE SubSeq(p, 1, i - 1)
FileName(p) == SubSeq(p, LastSlash(p) + 1, Len(p))

StartsWith(s, t) == Len(t) <= Len(s) /\ SubSeq(s, 1, Len(t)) = t

EndsWith(s, t) == Len(t) <= Len(s) /\ SubSeq(s, Len(s) - Len(t) + 1, Len(s)) = t

\* FileSystemPath::is_inside_or_equal: self.path starts with other.path and
\* the next byte is '/' or the end (everything is inside the root "").
IsInsideOrEqual(self, other) ==
    /\ StartsWith(self, other)
    /\ \/ other = <<>>
       \/ Len(self) = Len(other)
       \/ self[Len(other) + 1] = "/"

\* FileSystemPath::is_inside: strictly below other.
IsInside(self, other) == self # other /\ IsInsideOrEqual(self, other)

(***************************************************************************)
(* Glob: the two predicates of the compiled pattern, for a family of       *)
(* patterns.                                                               *)
(***************************************************************************)
Globs == {"**", "*", "*.j", "**/b", "s/**"}

Last(q) == q[Len(q)]

\* Glob::matches(path)
Matches(g, path) ==
    LET segs == Segments(path) IN
    CASE g = "**"   -> TRUE
      [] g = "*"    -> Len(segs) = 1
      [] g = "*.j"  -> Len(segs) = 1 /\ EndsWith(path, <<".", "j">>)
      [] g = "**/b" -> Last(segs) = <<"b">>
      [] g = "s/**" -> Len(segs) >= 2 /\ segs[1] = <<"s">>
      [] OTHER      -> FALSE

\* Glob::can_match_in_directory(path): could a path below `path` match?
CanMatchInDirectory(g, path) ==
    LET segs == Segments(path) IN
    CASE g = "**"   -> TRUE
      [] g = "*"    -> FALSE
      [] g = "*.j"  -> FALSE
      [] g = "**/b" -> TRUE
      [] g = "s/**" -> segs[1] = <<"s">>
      [] OTHER      -> FALSE

(***************************************************************************)
(* The filesystem collaborator                                             *)
(***************************************************************************)
\* DirectoryEntry
File(p)      == [tag |-> "File", path |-> p]
Directory(p) == [tag |-> "Directory", path |-> p]
Symlink(p)   == [tag |-> "Symlink", path |-> p]
Other(p)     == [tag |-> "Other", path |-> p]
ErrorEntry   == [tag |-> "Error", path |-> <<>>]

\* What is at path p of filesystem f ("none": nothing); the root "" is a
\* directory.
Kind(f, p) ==
    IF p = <<>> THEN "dir" ELSE IF p \in DOMAIN f THEN f[p].kind ELSE "none"

\* The entry read_dir reports for the child at path q: a symlink is
\* reported unresolved, carrying its own path.
RawEntry(f, q) ==
    CASE Kind(f, q) = "file"  -> File(q)
      [] Kind(f, q) = "dir"   -> Directory(q)
      [] Kind(f, q) = "link"  -> Symlink(q)
      [] Kind(f, q) = "other" -> Other(q)
      [] OTHER                -> ErrorEntry

\* FileSystemPath::read_dir: DirectoryContent::NotFound, or the entries as
\* (segment, entry) pairs.
ReadDir(f, p) ==
    IF Kind(f, p) = "dir"
    THEN [found |-> TRUE,
          entries |-> {<<FileName(q), RawEntry(f, q)>> :
                          q \in {r \in DOMAIN f : Parent(r) = p}}]
    ELSE [found |-> FALSE, entries |-> {}]

\* The path a chain of symlinks starting at p ends at, following at most n
\* hops; ok is FALSE when the chain is longer (a cycle of links).
RECURSIVE RealPath(_, _, _)
RealPath(f, p, n) ==
    IF Kind(f, p) # "link" THEN [ok |-> TRUE, path |-> p]
    ELSE IF n = 0 THEN [ok |-> FALSE, path |-> p]
    ELSE RealPath(f, f[p].target, n - 1)

\* DirectoryEntry::resolve_symlink: a Symlink is followed to the
\* classification of its terminal target; a link whose target cannot be
\* classified is an Error entry; every other entry is returned as is.
ResolveSymlink(f, entry) ==
    IF entry.tag # "Symlink" THEN entry
    ELSE LET rp == RealPath(f, entry.path, MaxHops) IN
         IF ~rp.ok THEN ErrorEntry
         ELSE CASE Kind(f, rp.path) = "file"  -> File(rp.path)
                [] Kind(f, rp.path) = "dir"   -> Directory(rp.path)
                [] Kind(f, rp.path) = "other" -> Other(rp.path)
                [] OTHER                      -> ErrorEntry

\* FileSystem::read: reading the content of the file at p fails.
ReadFails(f, p) == Kind(f, p) = "file" /\ f[p].content = 2

\* The tracked reads a task registers, as <<kind, path>>:
\*   "dir"     the listing of a directory      (read_dir)
\*   "resolve" the resolution of a symlink     (resolve_symlink)
\*   "content" the content of a file           (fs.read)
\*   "type"    the type of a path              (get_type)
DirRead(p)     == <<"dir", p>>
ResolveRead(p) == <<"resolve", p>>
ContentRead(p) == <<"content", p>>
TypeRead(p)    == <<"type", p>>

\* Whether the value of a tracked read differs between filesystems f and g.
ReadChanged(f, g, dep) ==
    CASE dep[1] = "dir"     -> ReadDir(f, dep[2]) # ReadDir(g, dep[2])
      [] dep[1] = "resolve" -> ResolveSymlink(f, Symlink(dep[2]))
                                   # ResolveSymlink(g, Symlink(dep[2]))
      [] dep[1] = "content" ->
            \/ Kind(f, dep[2]) # Kind(g, dep[2])
            \/ /\ Kind(f, dep[2]) = "file"
               /\ f[dep[2]].content # g[dep[2]].content
      [] dep[1] = "type"    -> Kind(f, dep[2]) # Kind(g, dep[2])
      [] OTHER              -> FALSE

(***************************************************************************)
(* Filesystems the runs start from                                         *)
(***************************************************************************)
nA  == <<"a">>
nB  == <<"b">>
nD  == <<"d">>
nE  == <<"e">>
nF  == <<"f">>
nK  == <<"k">>
nL  == <<"l">>
nM  == <<"m">>
nN  == <<"n">>
nO  == <<"o">>
nS  == <<"s">>
nX  == <<"x">>
nSA == <<"s", "a">>

nDotG == <<".", "g">>
nDotL == <<".", "l">>
nDotV == <<".", "v">>
nLJ == <<"l", ".", "j">>
nTJ == <<"t", ".", "j">>
nFJ == <<"f", ".", "j">>

P2(a, b)    == a \o Slash \o b
P3(a, b, c) == a \o Slash \o b \o Slash \o c
P4(a, b, c, d) == a \o Slash \o b \o Slash \o c \o Slash \o d

MkFile(p)    == p :> [kind |-> "file", target |-> <<>>, content |-> 0]
MkDir(p)     == p :> [kind |-> "dir", target |-> <<>>, content |-> 0]
MkLink(p, t) == p :> [kind |-> "link", target |-> t, content |-> 0]
MkOther(p)   == p :> [kind |-> "other", target |-> <<>>, content |-> 0]
MkError(p)   == p :> [kind |-> "error", target |-> <<>>, content |-> 0]
\* A file whose content cannot be read (an I/O error) until it is rewritten.
MkUnreadable(p) == p :> [kind |-> "file", target |-> <<>>, content |-> 2]

\* tests::track_glob_invalidations: dir/{foo, sub/{bar, .vim/.gitignore},
\* link.js -> /link_target.js}, walked from dir.
ScenInvalidations ==
    [dir |-> nD,
     fs |-> MkDir(nD) @@ MkFile(P2(nD, nF)) @@ MkDir(P2(nD, nS))
            @@ MkFile(P3(nD, nS, nB)) @@ MkDir(P3(nD, nS, nDotV))
            @@ MkFile(P4(nD, nS, nDotV, nDotG))
            @@ MkFile(nTJ) @@ MkLink(P2(nD, nLJ), nTJ),
     creatable |-> {P3(nD, nS, nN), P4(nD, nS, nDotV, nN)}]

\* tests::read_glob_symlinks_loop: sub/{foo.js, link -> sub}, walked from
\* the root.
ScenLoop ==
    [dir |-> <<>>,
     fs |-> MkDir(nS) @@ MkFile(P2(nS, nFJ)) @@ MkLink(P2(nS, nL), nS),
     creatable |-> {}]

\* Two sibling directories, each holding a directory symlink to the other.
ScenMutual ==
    [dir |-> <<>>,
     fs |-> MkDir(nA) @@ MkDir(nS) @@ MkLink(P2(nA, nL), nS)
            @@ MkLink(P2(nS, nL), nA),
     creatable |-> {}]

\* The two directories linking to each other, next to a directory holding
\* a symlink to itself.
ScenMutualLoop ==
    [dir |-> <<>>,
     fs |-> MkDir(nA) @@ MkDir(nS) @@ MkLink(P2(nA, nL), nS)
            @@ MkLink(P2(nS, nL), nA) @@ MkDir(nM) @@ MkLink(P2(nM, nK), nM),
     creatable |-> {}]

\* tests::read_glob_symlinks: sub/foo.js and link.js -> sub/foo.js, walked
\* from the root; plus a dot-file and a link to it.
ScenSymlinks ==
    [dir |-> <<>>,
     fs |-> MkDir(nS) @@ MkFile(P2(nS, nFJ)) @@ MkLink(nLJ, P2(nS, nFJ))
            @@ MkFile(nDotG) @@ MkLink(nK, nDotG),
     creatable |-> {P2(nS, nB)}]

\* tests::read_glob_basic: foo and sub/bar, and one more level, walked from
\* the root; no symlinks.
ScenBasic ==
    [dir |-> <<>>,
     fs |-> MkFile(nF) @@ MkDir(nS) @@ MkFile(P2(nS, nB)) @@ MkDir(P2(nS, nA))
            @@ MkFile(P3(nS, nA, nB)) @@ MkDir(nA) @@ MkFile(P2(nA, nDotG)),
     creatable |-> {P2(nA, nB)}]

\* Entries of every classification: a device, an unreadable entry, a
\* broken link, two links to one real directory outside the walk.
ScenKinds ==
    [dir |-> nD,
     fs |-> MkDir(nD) @@ MkOther(P2(nD, nO)) @@ MkError(P2(nD, nE))
            @@ MkLink(P2(nD, nK), nX) @@ MkDir(nA) @@ MkFile(P2(nA, nB))
            @@ MkLink(P2(nD, nL), nA) @@ MkLink(P2(nD, nM), nA),
     creatable |-> {}]

\* A dot-named directory symlink pointing at its own parent.
ScenDotLoop ==
    [dir |-> <<>>,
     fs |-> MkDir(nS) @@ MkFile(P2(nS, nB)) @@ MkLink(P2(nS, nDotL), nS),
     creatable |-> {}]

\* A symlink two levels down pointing at an ancestor, beside entries that
\* are not affected by it.
ScenDeepLoop ==
    [dir |-> <<>>,
     fs |-> MkFile(nF) @@ MkDir(nS) @@ MkFile(P2(nS, nB)) @@ MkDir(P2(nS, nA))
            @@ MkLink(P3(nS, nA, nL), nS),
     creatable |-> {}]

\* A walked directory below the filesystem root: a directory holding a
\* symlink to itself, and a second way into it through a symlink.
ScenLoopBelow ==
    [dir |-> nD,
     fs |-> MkDir(nD) @@ MkDir(P2(nD, nS)) @@ MkLink(P3(nD, nS, nL), P2(nD, nS))
            @@ MkLink(P2(nD, nM), P2(nD, nS)),
     creatable |-> {}]

\* A directory symlink whose path starts with the characters of its
\* target's path without lying inside it.
ScenPrefixName ==
    [dir |-> <<>>,
     fs |-> MkDir(nS) @@ MkFile(P2(nS, nB)) @@ MkDir(nSA)
            @@ MkLink(P2(nSA, nL), nS),
     creatable |-> {}]

\* A matched file whose content cannot be read, beside a directory.
ScenUnreadable ==
    [dir |-> <<>>,
     fs |-> MkUnreadable(nFJ) @@ MkDir(nS) @@ MkFile(P2(nS, nB)),
     creatable |-> {}]

\* The walked directory does not exist.
ScenNotFound ==
    [dir |-> nX,
     fs |-> MkFile(nTJ),
     creatable |-> {P2(nX, nB)}]

Scenarios ==
    {ScenInvalidations, ScenLoop, ScenMutual, ScenMutualLoop, ScenSymlinks,
     ScenBasic, ScenKinds, ScenDotLoop, ScenNotFound, ScenDeepLoop,
     ScenLoopBelow, ScenPrefixName, ScenUnreadable}

(***************************************************************************)
(* Memoized tasks                                                          *)
(***************************************************************************)
\* The key of a memoized walk: read_glob_inner(prefix, directory, glob) and
\* track_glob_inner(prefix, directory, glob, include_dot_files); the glob
\* is the same in every key of a run. read_glob has no flag: dot is TRUE.
Key(mode, prefix, directory, dot) ==
    [mode |-> mode, prefix |-> prefix, dir |-> directory, dot |-> dot]

NoWait == <<>>

\* Mutant of NewTask: a directory that is not found fails the walk.
NewTaskNotFoundFails(f, k, gen) ==
    [st |-> IF ReadDir(f, k.dir).found THEN "run" ELSE "failed",
     gen |-> gen,
     todo |-> ReadDir(f, k.dir).entries,
     wait |-> NoWait,
     results |-> {},
     inner |-> {},
     reads |-> {},
     types |-> {},
     completions |-> {},
     links |-> {},
     token |-> 0,
     err |-> k.dir]

\* line 40-45 / 127-135: the task body starts by reading the listing; the
\* loop runs over its entries, and over nothing for NotFound.
NewTask(f, k, gen) ==
    [st |-> "run",
     gen |-> gen,
     todo |-> IF ReadDir(f, k.dir).found THEN ReadDir(f, k.dir).entries ELSE {},
     wait |-> NoWait,
     results |-> {},
     inner |-> {},
     reads |-> {},
     types |-> {},
     completions |-> {},
     links |-> {},
     token |-> 0,
     err |-> <<>>]

\* Mutant of ListingRead: the listing is read without being tracked.
ListingReadUntracked(directory) == DirRead(<<"?">>)

\* line 40 / 127: directory.read_dir().await registers the listing of the
\* directory as a read of the task, whether or not the directory exists.
ListingRead(directory) == DirRead(directory)

\* Mutant of resolve_symlink_safely: the entry is returned unresolved.
resolve_symlink_safely_unresolved(f, entry) ==
    [ok |-> TRUE, entry |-> entry, err |-> <<>>]

\* Mutant of resolve_symlink_safely: the failure names the link's file
\* name instead of its path.
resolve_symlink_safely_names_file_name(f, entry) ==
    LET resolved_entry == ResolveSymlink(f, entry) IN
    IF /\ resolved_entry # entry
       /\ resolved_entry.tag = "Directory"
       /\ IsInsideOrEqual(entry.path, resolved_entry.path)
    THEN [ok |-> FALSE, entry |-> resolved_entry, err |-> FileName(entry.path)]
    ELSE [ok |-> TRUE, entry |-> resolved_entry, err |-> <<>>]

\* Mutant of resolve_symlink_safely: the recursion test is a plain string
\* prefix test.
resolve_symlink_safely_string_prefix(f, entry) ==
    LET resolved_entry == ResolveSymlink(f, entry) IN
    IF /\ resolved_entry # entry
       /\ resolved_entry.tag = "Directory"
       /\ StartsWith(entry.path, resolved_entry.path)
    THEN [ok |-> FALSE, entry |-> resolved_entry, err |-> entry.path]
    ELSE [ok |-> TRUE, entry |-> resolved_entry, err |-> <<>>]

\* Mutant of resolve_symlink_safely: an entry classified Error is a
\* failure.
resolve_symlink_safely_fails_on_error(f, entry) ==
    LET resolved_entry == ResolveSymlink(f, entry) IN
    IF \/ resolved_entry = ErrorEntry
       \/ /\ resolved_entry # entry
          /\ resolved_entry.tag = "Directory"
          /\ IsInsideOrEqual(entry.path, resolved_entry.path)
    THEN [ok |-> FALSE, entry |-> resolved_entry, err |-> entry.path]
    ELSE [ok |-> TRUE, entry |-> resolved_entry, err |-> <<>>]

\* Mutant of resolve_symlink_safely: the failure names the directory the
\* link resolved to instead of the link.
resolve_symlink_safely_names_target(f, entry) ==
    LET resolved_entry == ResolveSymlink(f, entry) IN
    IF /\ resolved_entry # entry
       /\ resolved_entry.tag = "Directory"
       /\ IsInsideOrEqual(entry.path, resolved_entry.path)
    THEN [ok |-> FALSE, entry |-> resolved_entry, err |-> resolved_entry.path]
    ELSE [ok |-> TRUE, entry |-> resolved_entry, err |-> <<>>]

\* line 75-95: resolve a symlink, failing when a symlink to a directory
\* lies inside or at the directory it resolves to.
resolve_symlink_safely(f, entry) ==
    LET resolved_entry == ResolveSymlink(f, entry) IN
    IF /\ resolved_entry # entry
       /\ resolved_entry.tag = "Directory"
       /\ IsInsideOrEqual(entry.path, resolved_entry.path)
    THEN [ok |-> FALSE, entry |-> resolved_entry, err |-> entry.path]
    ELSE [ok |-> TRUE, entry |-> resolved_entry, err |-> <<>>]

\* The symlink resolutions resolving `entry` reads.
LinkReads(entry) == IF entry.tag = "Symlink" THEN {entry.path} ELSE {}

\* Mutant of InnerKey: the sub-result is stored under the segment.
InnerKeySegment(entry_path, segment) == segment

\* line 60-61: the key a sub-result is stored under in `inner`.
InnerKey(entry_path, segment) == entry_path

\* Mutant of SkipDot: the dot-file filter is dropped.
SkipDotNever(include_dot_files, segment) == FALSE

\* line 136: the dot-file filter of track mode.
SkipDot(include_dot_files, segment) ==
    ~include_dot_files /\ StartsWithDot(segment)

\* Mutant of ResultsInsert: the map is replaced instead of extended, so
\* that the entry processed last wins.
ResultsInsertReplaces(results, entry_path, entry) == {<<entry_path, entry>>}

\* line 55: result.results.insert(entry_path.to_string(), entry.clone())
ResultsInsert(results, entry_path, entry) ==
    {x \in results : x[1] # entry_path} \cup {<<entry_path, entry>>}

\* Mutant of ReadDescend: dot-named directories are not descended into.
ReadDescendSkipsDot(g, entry, entry_path) ==
    /\ entry.tag = "Directory"
    /\ CanMatchInDirectory(g, entry_path)
    /\ ~StartsWithDot(FileName(entry_path))

\* Mutant of ReadDescend: the can_match_in_directory test is dropped.
ReadDescendUnpruned(g, entry, entry_path) == entry.tag = "Directory"

\* line 57-58: read mode descends into a resolved Directory the glob can
\* match in.
ReadDescend(g, entry, entry_path) ==
    entry.tag = "Directory" /\ CanMatchInDirectory(g, entry_path)

\* Mutant of TrackDescend: the can_match_in_directory test is dropped.
TrackDescendUnpruned(g, entry_path) == TRUE

\* line 149: track mode descends into a Directory the glob can match in.
TrackDescend(g, entry_path) == CanMatchInDirectory(g, entry_path)

\* Mutant of PushCompletion: the sub-tracking is called but not collected.
PushCompletionDropped(completions, child) == completions

\* line 150-155: completions.push(track_glob_inner(..)): the sub-tracking
\* joins the ones awaited at line 183.
PushCompletion(completions, child) == completions \cup {child}

\* Mutant of PassFlag: sub-trackings include dot files.
PassFlagTrue(include_dot_files) == TRUE

\* line 154: include_dot_files is passed to the sub-tracking as it is.
PassFlag(include_dot_files) == include_dot_files

\* Mutant of ReadPath: the content read is of the unresolved entry's path.
ReadPathRaw(entry, resolved) == entry.path

\* line 158-160: DirectoryEntry::File(path) => fs.read(path): the content
\* read is of the path of the resolved entry.
ReadPath(entry, resolved) == resolved.path

\* Mutant of CompletionNew: the same cell for every execution.
CompletionSame(t) == 1

\* line 185: Completion::new() makes a cell that differs from the one of
\* every earlier execution of the task.
CompletionNew(t) == t.gen

\* Mutant of WithTask: the sub-walk is run by the caller itself instead of
\* through the memoized entry point: every call executes the body again.
WithTaskInlined(ts, f, k) ==
    IF k \in DOMAIN ts
    THEN [ts EXCEPT ![k] = NewTask(f, k, ts[k].gen + 1)]
    ELSE ts @@ (k :> NewTask(f, k, 1))

\* The tasks a call makes exist from the call on (line 62, 150); a task
\* that exists already is the cached one.
WithTask(ts, f, k) ==
    IF k \in DOMAIN ts THEN ts ELSE ts @@ (k :> NewTask(f, k, 1))

Settled(t) == t.st \in {"done", "failed", "panicked", "ioerror"}

\* line 45-67: one iteration of the loop of read_glob_internal, up to the
\* await of the sub-walk.
ReadEntry(k, e) ==
    /\ k \in DOMAIN tasks
    /\ k.mode = "read"
    /\ tasks[k].st = "run"
    /\ tasks[k].wait = NoWait
    /\ e \in tasks[k].todo
    /\ LET t == tasks[k]
           segment == e[1]
           entry_path == EntryPath(k.prefix, segment)
           r == resolve_symlink_safely(fs, e[2])
           t1 == [t EXCEPT !.todo = @ \ {e}, !.links = @ \cup LinkReads(e[2])]
           t2 == IF Matches(glob, entry_path)
                 THEN [t1 EXCEPT !.results = ResultsInsert(@, entry_path, r.entry)]
                 ELSE t1
           child == Key("read", entry_path, r.entry.path, TRUE)
       IN
       IF ~r.ok
       THEN tasks' = [tasks EXCEPT ![k] = [t1 EXCEPT !.st = "failed", !.err = r.err]]
       ELSE IF ReadDescend(glob, r.entry, entry_path)
       THEN IF Depth(entry_path) > MaxDepth
            THEN tasks' = [tasks EXCEPT ![k] = [t2 EXCEPT !.st = "overflow"]]
            ELSE tasks' = [WithTask(tasks, fs, child) EXCEPT
                             ![k] = [t2 EXCEPT !.wait =
                                 <<InnerKey(entry_path, segment), child>>]]
       ELSE tasks' = [tasks EXCEPT ![k] = t2]
    /\ UNCHANGED <<fs, glob, root, creatable, obs, muts, seen, tpl>>

\* Mutant of ReadResume: the failure of the awaited sub-walk is dropped and
\* the loop goes on.
ReadResumeSwallows(k) ==
    /\ k \in DOMAIN tasks
    /\ k.mode = "read"
    /\ tasks[k].st = "run"
    /\ tasks[k].wait # NoWait
    /\ LET t == tasks[k]
           child == t.wait[2]
       IN
       /\ Settled(tasks[child])
       /\ IF tasks[child].st = "done"
          THEN tasks' = [tasks EXCEPT ![k] =
                   [t EXCEPT !.wait = NoWait,
                             !.inner = @ \cup {<<t.wait[1], child>>}]]
          ELSE tasks' = [tasks EXCEPT ![k] = [t EXCEPT !.wait = NoWait]]
    /\ UNCHANGED <<fs, glob, root, creatable, obs, muts, seen, tpl>>

\* line 60-65: the awaited sub-walk has finished: its cell is stored in
\* `inner`, or its failure fails this walk.
ReadResume(k) ==
    /\ k \in DOMAIN tasks
    /\ k.mode = "read"
    /\ tasks[k].st = "run"
    /\ tasks[k].wait # NoWait
    /\ LET t == tasks[k]
           child == t.wait[2]
       IN
       /\ Settled(tasks[child])
       /\ IF tasks[child].st = "done"
          THEN tasks' = [tasks EXCEPT ![k] =
                   [t EXCEPT !.wait = NoWait,
                             !.inner = @ \cup {<<t.wait[1], child>>}]]
          ELSE tasks' = [tasks EXCEPT ![k] =
                   [t EXCEPT !.wait = NoWait, !.st = "failed",
                             !.err = tasks[child].err]]
    /\ UNCHANGED <<fs, glob, root, creatable, obs, muts, seen, tpl>>

\* line 71: Ok(ReadGlobResult::cell(result))
ReadFinish(k) ==
    /\ k \in DOMAIN tasks
    /\ k.mode = "read"
    /\ tasks[k].st = "run"
    /\ tasks[k].wait = NoWait
    /\ tasks[k].todo = {}
    /\ tasks' = [tasks EXCEPT ![k].st = "done"]
    /\ UNCHANGED <<fs, glob, root, creatable, obs, muts, seen, tpl>>

\* line 135-176: one iteration of the loop of track_glob_internal.
TrackEntry(k, e) ==
    /\ k \in DOMAIN tasks
    /\ k.mode = "track"
    /\ tasks[k].st = "run"
    /\ e \in tasks[k].todo
    /\ LET t == tasks[k]
           segment == e[1]
           entry_path == EntryPath(k.prefix, segment)
           r == resolve_symlink_safely(fs, e[2])
           t0 == [t EXCEPT !.todo = @ \ {e}]
           t1 == [t0 EXCEPT !.links = @ \cup LinkReads(e[2])]
           child == Key("track", entry_path, r.entry.path, PassFlag(k.dot))
       IN
       IF SkipDot(k.dot, segment)
       THEN tasks' = [tasks EXCEPT ![k] = t0]
       ELSE IF ~r.ok
       THEN tasks' = [tasks EXCEPT ![k] = [t1 EXCEPT !.st = "failed", !.err = r.err]]
       ELSE CASE r.entry.tag = "Directory" ->
                   IF ~TrackDescend(glob, entry_path)
                   THEN tasks' = [tasks EXCEPT ![k] = t1]
                   ELSE IF Depth(entry_path) > MaxDepth
                   THEN tasks' = [tasks EXCEPT ![k] = [t1 EXCEPT !.st = "overflow"]]
                   ELSE tasks' = [WithTask(tasks, fs, child) EXCEPT
                            ![k] = [t1 EXCEPT !.completions =
                                        PushCompletion(@, child)]]
              [] r.entry.tag = "File" ->
                   IF Matches(glob, entry_path)
                   THEN tasks' = [tasks EXCEPT ![k] =
                            [t1 EXCEPT !.reads = @ \cup {ReadPath(e[2], r.entry)}]]
                   ELSE tasks' = [tasks EXCEPT ![k] = t1]
              [] r.entry.tag = "Symlink" ->
                   tasks' = [tasks EXCEPT ![k] = [t1 EXCEPT !.st = "panicked"]]
              [] r.entry.tag = "Other" ->
                   IF Matches(glob, entry_path)
                   THEN tasks' = [tasks EXCEPT ![k] =
                            [t1 EXCEPT !.types = @ \cup {r.entry.path}]]
                   ELSE tasks' = [tasks EXCEPT ![k] = t1]
              [] OTHER -> tasks' = [tasks EXCEPT ![k] = t1]
    /\ UNCHANGED <<fs, glob, root, creatable, obs, muts, seen, tpl>>

\* Mutant of TrackJoin: the token is made once the loop is over, without
\* awaiting what the loop collected.
TrackJoinUnawaited(k) ==
    /\ k \in DOMAIN tasks
    /\ k.mode = "track"
    /\ tasks[k].st = "run"
    /\ tasks[k].todo = {}
    /\ tasks' = [tasks EXCEPT ![k] =
                    [tasks[k] EXCEPT !.st = "done", !.token = CompletionNew(tasks[k])]]
    /\ UNCHANGED <<fs, glob, root, creatable, obs, muts, seen, tpl>>

\* line 180-185: try_join! of reads, types and completions, then
\* Completion::new(). The join fails as soon as one sub-tracking or one
\* content read failed ("failed": the symlink-loop error, "ioerror": the
\* error of a read), and yields once all of them have succeeded.
TrackJoin(k) ==
    /\ k \in DOMAIN tasks
    /\ k.mode = "track"
    /\ tasks[k].st = "run"
    /\ tasks[k].todo = {}
    /\ LET t == tasks[k]
           bad == {c \in t.completions :
                      tasks[c].st \in {"failed", "panicked", "ioerror"}}
           badReads == {p \in t.reads : ReadFails(fs, p)}
       IN
       \/ /\ bad # {}
          /\ \E c \in bad :
                tasks' = [tasks EXCEPT ![k] =
                    [t EXCEPT !.st = IF tasks[c].st = "ioerror"
                                     THEN "ioerror" ELSE "failed",
                              !.err = tasks[c].err]]
       \/ /\ badReads # {}
          /\ \E p \in badReads :
                tasks' = [tasks EXCEPT ![k] =
                             [t EXCEPT !.st = "ioerror", !.err = p]]
       \/ /\ \A c \in t.completions : tasks[c].st = "done"
          /\ badReads = {}
          /\ tasks' = [tasks EXCEPT ![k] =
                          [t EXCEPT !.st = "done", !.token = CompletionNew(t)]]
    /\ UNCHANGED <<fs, glob, root, creatable, obs, muts, seen, tpl>>

(***************************************************************************)
(* Dependencies and invalidation (the memoization framework)               *)
(***************************************************************************)
\* The tasks task k called.
Callees(ts, k) ==
    ts[k].completions
        \cup {c[2] : c \in ts[k].inner}
        \cup (IF ts[k].wait = NoWait THEN {} ELSE {ts[k].wait[2]})

\* The tasks reachable from the tasks S through calls.
RECURSIVE CallClosure(_, _)
CallClosure(ts, S) ==
    LET T == S \cup UNION {Callees(ts, k) : k \in S} IN
    IF T = S THEN S ELSE CallClosure(ts, T)

\* The filesystem reads task k registered: the listing it iterates, the
\* symlinks it resolved, and the content and type reads it awaited.
FsDeps(ts, k) ==
    {ListingRead(k.dir)}
        \cup {ResolveRead(p) : p \in ts[k].links}
        \cup {ContentRead(p) : p \in ts[k].reads}
        \cup {TypeRead(p) : p \in ts[k].types}

\* All the reads registered by the walk rooted at r.
RegisteredReads(ts, r) ==
    UNION {FsDeps(ts, k) : k \in CallClosure(ts, {r})}

\* The tasks a change from filesystem f to g invalidates: those that read
\* something that changed, and, since a track task awaits the Completion
\* cells of its sub-trackings and a re-executed sub-tracking makes a new
\* cell, every track task above an invalidated one. (A read task holds only
\* the reference to the cell of its sub-walk, which stays the same cell.)
RECURSIVE DirtyClosure(_, _)
DirtyClosure(ts, S) ==
    LET T == S \cup {k \in DOMAIN ts : ts[k].completions \cap S # {}} IN
    IF T = S THEN S ELSE DirtyClosure(ts, T)

Dirty(ts, f, g) ==
    DirtyClosure(ts, {k \in DOMAIN ts :
                        \E dep \in FsDeps(ts, k) : ReadChanged(f, g, dep)})

\* An invalidated task is executed again from the start of its body.
Invalidate(ts, f, g) ==
    [k \in DOMAIN ts |->
        IF k \in Dirty(ts, f, g) THEN NewTask(g, k, ts[k].gen + 1) ELSE ts[k]]

(***************************************************************************)
(* The client: strongly consistent reads and filesystem mutations          *)
(***************************************************************************)
\* The directories missing on the way to path p.
RECURSIVE MissingDirs(_, _)
MissingDirs(f, p) ==
    IF Parent(p) = <<>> \/ Kind(f, Parent(p)) # "none" THEN {}
    ELSE {Parent(p)} \cup MissingDirs(f, Parent(p))

Without(f, p) == [q \in DOMAIN f \ {p} |-> f[q]]

\* Writing a path that does not exist creates the file and the directories
\* on the way to it.
Create(f, p) ==
    [q \in DOMAIN f \cup {p} \cup MissingDirs(f, p) |->
        IF q = p THEN MkFile(p)[p]
        ELSE IF q \in MissingDirs(f, p) THEN MkDir(q)[q]
        ELSE f[q]]

\* line 317-330: the test helpers delete(path) and write(path, contents).
ApplyMutation(f, op, p) ==
    CASE op = "delete" -> Without(f, p)
      [] op = "write"  -> [f EXCEPT ![p].content = 1]
      [] op = "create" -> Create(f, p)
      [] OTHER         -> f

Mutations ==
    {<<"delete", p>> : p \in {q \in DOMAIN fs : fs[q].kind = "file"}}
        \cup {<<"write", p>> : p \in {q \in DOMAIN fs : fs[q].kind = "file"}}
        \cup {<<"create", p>> : p \in {q \in creatable : Kind(fs, q) = "none"}}

\* read_strongly_consistent: every task of the walk has settled.
Quiescent ==
    \A k \in CallClosure(tasks, {root}) : Settled(tasks[k])

Observe ==
    /\ Len(obs) = Len(muts)
    /\ Quiescent
    /\ obs' = Append(obs, [ok |-> tasks[root].st = "done",
                           token |-> tasks[root].token,
                           err |-> tasks[root].err])
    /\ seen' = Append(seen, RegisteredReads(tasks, root))
    /\ UNCHANGED <<fs, glob, root, creatable, tasks, muts, tpl>>

Mutate(m) ==
    /\ Len(obs) = Len(muts) + 1
    /\ Len(muts) < MaxMutations
    /\ m \in Mutations
    /\ fs' = ApplyMutation(fs, m[1], m[2])
    /\ tasks' = Invalidate(tasks, fs, fs')
    /\ muts' = Append(muts, [op |-> m[1], path |-> m[2], before |-> fs])
    /\ UNCHANGED <<glob, root, creatable, obs, seen, tpl>>

(***************************************************************************)
(* load_next_js_template (next-core util.rs)                               *)
(***************************************************************************)
\* The text of a template is a sequence of pieces, one per stretch of text
\* that the regular expressions and the contains / replace calls of the
\* function tell apart:
\*   "nl"          a line break (text none of them matches)
\*   "from_next"   from '.<path>' or import '.<path>' whose path lies in the
\*                 next package
\*   "from_out"    the same with a path that does not
\*   "from_abs"    from "next/<path>" or import "next/<path>"
\*   "qvar"        'key' with key of the form VAR_[A-Z_]+
\*   "var"         text of the form VAR_[A-Z_]+ not in single quotes
\*   "inject"      // INJECT:key
\*   "optional"    // OPTIONAL_IMPORT:key
\*   "optional_ns" // OPTIONAL_IMPORT:* as key
\*   "quote", "const", "const_null", "import", "import_ns"
\*                 the text the substitutions write around a value
\* `o` records where the piece was written: in the template file, in a
\* value of one of the three maps, or by the function.
Tok(t, key, o) == [t |-> t, key |-> key, o |-> o]

kVar == "VAR_A"
kInject == "x"
kImport == "y"

NoSource == <<>>

\* The variable `tpl` outside a load_next_js_template call.
NoTemplate == [pc |-> "none"]

\* Longest template file, in pieces.
MaxTemplateLen == 3

\* The pieces a template file is written with.
TemplateTokens ==
    {Tok("nl", "", "template"), Tok("from_next", "", "template"),
     Tok("from_out", "", "template"), Tok("qvar", kVar, "template"),
     Tok("var", kVar, "template"), Tok("inject", kInject, "template"),
     Tok("optional", kImport, "template"),
     Tok("optional_ns", kImport, "template")}

\* path.read(): the file is missing, or has content.
TemplateFiles ==
    {[found |-> FALSE, content |-> <<>>]}
        \cup {[found |-> TRUE, content |-> c] :
                c \in UNION {[1..n -> TemplateTokens] : n \in 1..MaxTemplateLen}}

\* The maps the caller passes, in their insertion order: no entry, or one
\* entry with a plain value or with a value that holds marker text.
ReplacementInputs ==
    {<<>>,
     <<[key |-> kVar, value |-> <<Tok("nl", "", "replacement")>>]>>,
     <<[key |-> kVar, value |-> <<Tok("inject", kInject, "replacement")>>]>>}

InjectionInputs ==
    {<<>>,
     <<[key |-> kInject, value |-> <<Tok("nl", "", "injection")>>]>>,
     <<[key |-> kInject, value |-> <<Tok("var", kVar, "injection")>>]>>}

ImportInputs ==
    {<<>>,
     <<[key |-> kImport, some |-> FALSE, value |-> <<>>]>>,
     <<[key |-> kImport, some |-> TRUE, value |-> <<Tok("nl", "", "import")>>]>>,
     <<[key |-> kImport, some |-> TRUE,
        value |-> <<Tok("inject", kInject, "import")>>]>>}

\* str::contains and str::replace for the text of one piece.
Contains(content, t, key) ==
    \E i \in 1..Len(content) : content[i].t = t /\ content[i].key = key

RECURSIVE Replace(_, _, _, _)
Replace(content, t, key, to) ==
    IF content = <<>> THEN <<>>
    ELSE (IF Head(content).t = t /\ Head(content).key = key
          THEN to ELSE <<Head(content)>>)
             \o Replace(Tail(content), t, key, to)

\* StringifyJs: the value as a JavaScript string literal.
StringifyJs(value, o) ==
    <<Tok("quote", "", o)>> \o value \o <<Tok("quote", "", o)>>

\* line 746-815: replace_all with IMPORT_PATH_RE and the closure that
\* rewrites a relative import: every match is rewritten and counted, and
\* the first import that does not lie in the next package fails the call.
RECURSIVE replace_all(_)
replace_all(haystack) ==
    IF haystack = <<>> THEN [ok |-> TRUE, new |-> <<>>, count |-> 0]
    ELSE LET caps == Head(haystack)
             rest == replace_all(Tail(haystack))
         IN
         IF caps.t = "from_out" \/ ~rest.ok
         THEN [ok |-> FALSE, new |-> <<>>, count |-> 0]
         ELSE IF caps.t = "from_next"
         THEN [ok |-> TRUE,
               new |-> <<Tok("from_abs", "", "function")>> \o rest.new,
               count |-> rest.count + 1]
         ELSE [ok |-> TRUE, new |-> <<caps>> \o rest.new, count |-> rest.count]

\* line 823-831: the loop over `replacements`.
RECURSIVE ApplyReplacements(_, _, _)
ApplyReplacements(content, replacements, replaced) ==
    IF replacements = <<>> THEN [content |-> content, replaced |-> replaced]
    ELSE LET key == Head(replacements).key
             replacement == Head(replacements).value
         IN
         IF Contains(content, "qvar", key)
         THEN ApplyReplacements(
                  Replace(content, "qvar", key, StringifyJs(replacement, "replacement")),
                  Tail(replacements), replaced \cup {key})
         ELSE ApplyReplacements(content, Tail(replacements), replaced)

\* line 834-835: the matches of TEMPLATE_VAR_RE.
RemainingVariables(content) ==
    {i \in 1..Len(content) : content[i].t \in {"qvar", "var"}}

\* line 862-871: the loop over `injections`.
RECURSIVE ApplyInjections(_, _, _)
ApplyInjections(content, injections, injected) ==
    IF injections = <<>> THEN [content |-> content, injected |-> injected]
    ELSE LET key == Head(injections).key
             injection == Head(injections).value
         IN
         IF Contains(content, "inject", key)
         THEN ApplyInjections(
                  Replace(content, "inject", key,
                          <<Tok("const", key, "injection")>> \o injection),
                  Tail(injections), injected \cup {key})
         ELSE ApplyInjections(content, Tail(injections), injected)

\* Mutant of RemainingInjections: the content is not searched.
RemainingInjectionsUnsearched(content) == {}

\* line 874-876: the matches of INJECT_RE.
RemainingInjections(content) ==
    {i \in 1..Len(content) : content[i].t = "inject"}

\* line 903-933: the loop over `imports`.
RECURSIVE ApplyImports(_, _, _)
ApplyImports(content, imports, imports_added) ==
    IF imports = <<>>
    THEN [content |-> content, imports_added |-> imports_added]
    ELSE LET key == Head(imports).key
             namespace == ~Contains(content, "optional", key)
             full == IF namespace THEN "optional_ns" ELSE "optional"
         IN
         IF ~Contains(content, full, key)
         THEN ApplyImports(content, Tail(imports), imports_added)
         ELSE ApplyImports(
                  Replace(content, full, key,
                      IF Head(imports).some
                      THEN <<Tok(IF namespace THEN "import_ns" ELSE "import",
                                 key, "import")>>
                               \o StringifyJs(Head(imports).value, "import")
                      ELSE <<Tok("const_null", key, "import")>>),
                  Tail(imports), imports_added \cup {key})

\* line 936-938: the matches of OPTIONAL_IMPORT_RE.
RemainingImports(content) ==
    {i \in 1..Len(content) : content[i].t \in {"optional", "optional_ns"}}

\* bail!: the call returns the error and no source.
Bail(t, err) == [t EXCEPT !.pc = "err", !.err = err, !.source = NoSource]

\* line 734-737: the template file is read.
LoadTemplate ==
    /\ tpl.pc = "load"
    /\ tpl' = IF ~tpl.file.found
              THEN Bail(tpl, "Expected file content for file")
              ELSE [tpl EXCEPT !.pc = "imports", !.content = tpl.file.content]
    /\ UNCHANGED <<fs, glob, root, creatable, tasks, obs, muts, seen>>

\* line 761-819: the relative imports are rewritten; at least one must be.
RewriteImports ==
    /\ tpl.pc = "imports"
    /\ LET r == replace_all(tpl.content) IN
       tpl' = IF ~r.ok THEN Bail(tpl, "replacing imports failed")
              ELSE IF r.count = 0
              THEN Bail(tpl, "Expected to replace at least one import")
              ELSE [tpl EXCEPT !.pc = "replacements", !.content = r.new,
                               !.count = r.count]
    /\ UNCHANGED <<fs, glob, root, creatable, tasks, obs, muts, seen>>

\* line 821-855: the template variables are replaced; none may remain and
\* every replacement must have been used.
ReplaceVariables ==
    /\ tpl.pc = "replacements"
    /\ LET r == ApplyReplacements(tpl.content, tpl.replacements, {}) IN
       tpl' = IF RemainingVariables(r.content) # {}
              THEN Bail(tpl, "Expected to replace all template variables, found")
              ELSE IF Cardinality(r.replaced) # Len(tpl.replacements)
              THEN Bail(tpl, "Expected to replace all template variables, missing")
              ELSE [tpl EXCEPT !.pc = "injections", !.content = r.content]
    /\ UNCHANGED <<fs, glob, root, creatable, tasks, obs, muts, seen>>

\* line 857-893: the injections are made; none may remain and every
\* injection must have been used.
Inject ==
    /\ tpl.pc = "injections"
    /\ LET r == ApplyInjections(tpl.content, tpl.injections, {}) IN
       tpl' = IF RemainingInjections(r.content) # {}
              THEN Bail(tpl, "Expected to inject all injections, found")
              ELSE IF Cardinality(r.injected) # Len(tpl.injections)
              THEN Bail(tpl, "Expected to inject all injections, missing")
              ELSE [tpl EXCEPT !.pc = "optional_imports", !.content = r.content]
    /\ UNCHANGED <<fs, glob, root, creatable, tasks, obs, muts, seen>>

\* line 895-962: the optional imports are written; none may remain and
\* every import must have been used.
AddImports ==
    /\ tpl.pc = "optional_imports"
    /\ LET r == ApplyImports(tpl.content, tpl.imports, {}) IN
       tpl' = IF RemainingImports(r.content) # {}
              THEN Bail(tpl, "Expected to inject all imports, found")
              ELSE IF Cardinality(r.imports_added) # Len(tpl.imports)
              THEN Bail(tpl, "Expected to inject all imports, missing")
              ELSE [tpl EXCEPT !.pc = "finish", !.content = r.content]
    /\ UNCHANGED <<fs, glob, root, creatable, tasks, obs, muts, seen>>

\* line 964-973: a last line break is added if missing, and the content is
\* returned as the source.
Finish ==
    /\ tpl.pc = "finish"
    /\ LET content == IF tpl.content[Len(tpl.content)].t = "nl"
                      THEN tpl.content
                      ELSE Append(tpl.content, Tok("nl", "", "function"))
       IN tpl' = [tpl EXCEPT !.pc = "ok", !.content = content, !.source = content]
    /\ UNCHANGED <<fs, glob, root, creatable, tasks, obs, muts, seen>>

\* line 727-733: a call of load_next_js_template.
TemplateInit ==
    /\ \E file \in TemplateFiles : \E replacements \in ReplacementInputs :
       \E injections \in InjectionInputs : \E imports \in ImportInputs :
          tpl = [pc |-> "load", file |-> file, replacements |-> replacements,
                 injections |-> injections, imports |-> imports,
                 content |-> <<>>, count |-> 0, err |-> "", source |-> NoSource]
    /\ fs = ScenNotFound.fs
    /\ creatable = {}
    /\ glob = "*"
    /\ root = Key("read", <<>>, nX, TRUE)
    /\ tasks = <<>>
    /\ obs = <<>>
    /\ muts = <<>>
    /\ seen = <<>>

TemplateNext ==
    \/ LoadTemplate
    \/ RewriteImports
    \/ ReplaceVariables
    \/ Inject
    \/ AddImports
    \/ Finish

TemplateSpec == TemplateInit /\ [][TemplateNext]_vars

(***************************************************************************)
(* Specification                                                           *)
(***************************************************************************)
\* line 21-23 / 103-109: read_glob(directory, glob) and
\* track_glob(directory, glob, include_dot_files), both with prefix "".
Calls(directory) ==
    {Key("read", <<>>, directory, TRUE)}
        \cup {Key("track", <<>>, directory, d) : d \in BOOLEAN}

Init ==
    \E sc \in Scenarios : \E g \in Globs : \E r \in Calls(sc.dir) :
        /\ fs = sc.fs
        /\ creatable = sc.creatable
        /\ glob = g
        /\ root = r
        /\ tasks = r :> NewTask(sc.fs, r, 1)
        /\ obs = <<>>
        /\ muts = <<>>
        /\ seen = <<>>
        /\ tpl = NoTemplate

Next ==
    \/ \E k \in DOMAIN tasks : \E e \in tasks[k].todo : ReadEntry(k, e)
    \/ \E k \in DOMAIN tasks : ReadResume(k)
    \/ \E k \in DOMAIN tasks : ReadFinish(k)
    \/ \E k \in DOMAIN tasks : \E e \in tasks[k].todo : TrackEntry(k, e)
    \/ \E k \in DOMAIN tasks : TrackJoin(k)
    \/ Observe
    \/ \E m \in Mutations : Mutate(m)

Spec == Init /\ [][Next]_vars

(***************************************************************************)
(* Notions the properties are stated with                                  *)
(***************************************************************************)
\* The client has just read the root strongly consistently: the last
\* observation is of the current filesystem.
Fresh == Len(obs) = Len(muts) + 1
LastObs == obs[Len(obs)]
PrevObs == obs[Len(obs) - 1]
LastMut == muts[Len(muts)]

\* The path of q relative to the directory dir it lies in.
RelPath(q, dir) == IF dir = <<>> THEN q ELSE SubSeq(q, Len(dir) + 2, Len(q))

\* The path of the entry `name` of the directory walked under `prefix`.
Under(prefix, name) == IF prefix = <<>> THEN name ELSE P2(prefix, name)

\* The (prefix, directory) pairs a walk of directory dir under prefix is
\* specified to list: dir itself, and every entry that is not dot-skipped,
\* is classified Directory and passes the pruning test, to `fuel` levels.
RECURSIVE RefWalked(_, _, _, _, _, _)
RefWalked(f, g, dot, prefix, dir, fuel) ==
    {<<prefix, dir>>} \cup
    (IF fuel = 0 THEN {}
     ELSE UNION {RefWalked(f, g, dot, Under(prefix, e[1]),
                           ResolveSymlink(f, e[2]).path, fuel - 1) :
                 e \in {x \in ReadDir(f, dir).entries :
                          /\ dot \/ ~StartsWithDot(x[1])
                          /\ ResolveSymlink(f, x[2]).tag = "Directory"
                          /\ CanMatchInDirectory(g, Under(prefix, x[1]))}})

\* What the root call is specified to list in filesystem f.
Walked(f) == RefWalked(f, glob, root.dot, <<>>, root.dir, MaxDepth + 1)
WalkedDirs(f) == {w[2] : w \in Walked(f)}

\* The symlinks of f that sit in a directory A and resolve to A or to an
\* ancestor of A.
LoopLinks(f) ==
    {p \in DOMAIN f :
        /\ f[p].kind = "link"
        /\ ResolveSymlink(f, Symlink(p)).tag = "Directory"
        /\ IsInsideOrEqual(Parent(p), ResolveSymlink(f, Symlink(p)).path)}

\* The loop links in directories the walk lists without skipping them.
ReachedLoopLinks(f) ==
    {p \in LoopLinks(f) :
        /\ Parent(p) \in WalkedDirs(f)
        /\ root.dot \/ ~StartsWithDot(FileName(p))}

ResultKeys(ts, k) == {x[1] : x \in ts[k].results}
InnerKeys(ts, k) == {x[1] : x \in ts[k].inner}

\* The keys of `results` of the root result and of every sub-result
\* reachable from it through `inner`.
TreeKeys == UNION {ResultKeys(tasks, k) : k \in CallClosure(tasks, {root})}

NoSymlinksUnder(f, dir) ==
    \A q \in DOMAIN f : IsInside(q, dir) => f[q].kind # "link"

\* The relative paths under dir that the glob matches.
AllMatching(f, g, dir) ==
    {RelPath(q, dir) :
        q \in {x \in DOMAIN f : IsInside(x, dir) /\ Matches(g, RelPath(x, dir))}}

(***************************************************************************)
(* Properties                                                              *)
(***************************************************************************)
\* C1: every read_glob and track_glob invocation terminates on every finite
\* filesystem: the chain of sub-walks is never unbounded. Under the glob
\* "**", which prunes nothing, a sub-walk that lists a directory which a
\* sub-walk above it in the same chain lists repeats that chain forever, so
\* termination requires that no chain re-enters a directory.
C1_Terminates ==
    glob = "**" =>
        \A k \in DOMAIN tasks : \A a \in DOMAIN tasks :
            IsInside(k.prefix, a.prefix) => k.dir # a.dir

\* C2 (as claimed): whenever a directory A at or below the walked root
\* holds a symlink resolving to A or to an ancestor of A, the invocation
\* fails with the symlink-loop error, for every glob.
C2_FailsForEveryGlob ==
    (/\ Fresh
     /\ \E p \in LoopLinks(fs) : IsInsideOrEqual(Parent(p), root.dir))
        => ~LastObs.ok

\* C2 (amended): whenever the walk lists a directory A holding such a
\* symlink, and the link is not dot-skipped, an invocation that completes
\* fails, and the error names the filesystem path of such a link.
C2_FailsWhenReached ==
    (Fresh /\ ReachedLoopLinks(fs) # {})
        => (~LastObs.ok /\ LastObs.err \in ReachedLoopLinks(fs))

C2_Witness ==
    /\ Fresh
    /\ root.mode = "track"
    /\ glob = "s/**"
    /\ ReachedLoopLinks(fs) # {}
    /\ ~LastObs.ok
    /\ LastObs.err = P2(nS, nL)

\* C3 (as claimed): without symlinks, the key set of `results` of the value
\* read_glob returns is the set of all relative paths under the directory,
\* at any depth, that the glob matches.
C3_RootResultsHoldAllMatches ==
    (Fresh /\ root.mode = "read" /\ NoSymlinksUnder(fs, root.dir))
        => ResultKeys(tasks, root) = AllMatching(fs, glob, root.dir)

\* C3 (amended): without symlinks, read_glob succeeds and the union of the
\* key sets of `results` of the returned value and of all sub-results
\* reachable through `inner` is the set of all relative paths under the
\* directory that the glob matches; the returned value itself holds the
\* matching immediate entries.
C3_TreeResultsHoldAllMatches ==
    (Fresh /\ root.mode = "read" /\ NoSymlinksUnder(fs, root.dir))
        => /\ LastObs.ok
           /\ TreeKeys = AllMatching(fs, glob, root.dir)
           /\ ResultKeys(tasks, root) =
                  {q \in AllMatching(fs, glob, root.dir) : Depth(q) = 1}

C3_Witness ==
    /\ Fresh
    /\ root.mode = "read"
    /\ NoSymlinksUnder(fs, root.dir)
    /\ glob = "**/b"
    /\ P3(nS, nA, nB) \in TreeKeys
    /\ P3(nS, nA, nB) \notin ResultKeys(tasks, root)

\* The entry paths of the Directory entries of the directory task k lists
\* in which the glob cannot match.
PrunedAt(k) ==
    {Under(k.prefix, e[1]) :
        e \in {x \in ReadDir(fs, k.dir).entries :
                 /\ ResolveSymlink(fs, x[2]).tag = "Directory"
                 /\ ~CanMatchInDirectory(glob, Under(k.prefix, x[1]))}}

\* C4: in read mode, for a directory d the glob cannot match in, no
\* sub-walk exists at or under d, d is no key of `inner`, no path under d
\* is a key of any `results` or `inner`, and d itself is in the `results`
\* of its parent when the glob matches d.
C4_PrunedNotDescended ==
    \A k \in DOMAIN tasks : k.mode = "read" =>
        \A d \in PrunedAt(k) :
            /\ \A k2 \in DOMAIN tasks :
                  /\ ~IsInsideOrEqual(k2.prefix, d)
                  /\ \A key \in ResultKeys(tasks, k2) : ~IsInside(key, d)
                  /\ \A key \in InnerKeys(tasks, k2) : ~IsInsideOrEqual(key, d)
            /\ (tasks[k].st = "done" /\ Matches(glob, d))
                  => d \in ResultKeys(tasks, k)

C4_Witness ==
    /\ Fresh
    /\ root.mode = "read"
    /\ glob = "s/**"
    /\ nA \in PrunedAt(root)
    /\ nS \in InnerKeys(tasks, root)
    /\ P2(nS, nA) \in InnerKeys(tasks, Key("read", nS, nS, TRUE))

(***************************************************************************)
(* Notions of the properties about completion tokens                       *)
(***************************************************************************)
\* The client read the root, applied one mutation and read the root again.
AfterMutation == Len(muts) >= 1 /\ Fresh
Before == LastMut.before

\* ... in track mode, the first read having returned a token,
TrackAfter == AfterMutation /\ root.mode = "track" /\ PrevObs.ok

\* ... and the second read too.
TrackPair == TrackAfter /\ LastObs.ok

SameToken == LastObs.token = PrevObs.token

\* The entries of the listed directories that the walk of f classifies
\* (those the dot filter does not skip), each with the prefix-joined path it
\* is matched under: <<entry_path, raw entry, resolved entry>>.
Classified(f) ==
    UNION {{<<Under(w[1], e[1]), e[2], ResolveSymlink(f, e[2])>> :
                e \in {x \in ReadDir(f, w[2]).entries :
                         root.dot \/ ~StartsWithDot(x[1])}} :
           w \in Walked(f)}

\* The directories the walk of f reaches and does not descend into because
\* the glob cannot match in them.
PrunedDirs(f) ==
    {c[3].path : c \in {x \in Classified(f) :
        x[3].tag = "Directory" /\ ~CanMatchInDirectory(glob, x[1])}}

\* The files that are tracked matches of the walk of f.
MatchedFiles(f) ==
    {c[3].path : c \in {x \in Classified(f) :
        x[3].tag = "File" /\ Matches(glob, x[1])}}

\* The File entries of listed directories whose own path matches.
MatchedFileEntries(f) ==
    {c[2].path : c \in {x \in Classified(f) :
        x[2].tag = "File" /\ Matches(glob, x[1])}}

\* The files that matched symlinks of listed directories resolve to.
MatchedLinkTargets(f) ==
    {c[3].path : c \in {x \in Classified(f) :
        x[2].tag = "Symlink" /\ x[3].tag = "File" /\ Matches(glob, x[1])}}

\* The paths the symlinks the walk of f resolves end at.
ResolvedTargets(f) ==
    {RealPath(f, c[2].path, MaxHops).path :
        c \in {x \in Classified(f) : x[2].tag = "Symlink"}}

\* Path p is at or under the target of a symlink the walk of f resolves.
Aliased(f, p) == \E t \in ResolvedTargets(f) : IsInsideOrEqual(p, t)

\* Path p lies under a directory of the walked root whose name starts
\* with '.'.
UnderDotDir(p) ==
    /\ IsInside(p, root.dir)
    /\ \E i \in 1..(Len(Segments(RelPath(p, root.dir))) - 1) :
           StartsWithDot(Segments(RelPath(p, root.dir))[i])

\* The mutation changed the content of a dot-file of the walked root, or
\* something under one of its dot-directories.
DotChange(m) ==
    \/ /\ m.op = "write"
       /\ IsInside(m.path, root.dir)
       /\ StartsWithDot(FileName(m.path))
    \/ UnderDotDir(m.path)

\* C5 (as claimed): in track mode, after a change strictly under a
\* directory d the glob cannot match in, the next strongly consistent
\* track_glob returns the same token.
C5_PrunedChangeKeepsToken ==
    (/\ TrackPair
     /\ \E d \in PrunedDirs(Before) : IsInside(LastMut.path, d))
        => SameToken

\* C5 (amended): ... provided the changed path is not at or under the
\* target of a symlink the walk resolves.
C5_UnaliasedPrunedChangeKeepsToken ==
    (/\ TrackPair
     /\ \E d \in PrunedDirs(Before) : IsInside(LastMut.path, d)
     /\ ~Aliased(Before, LastMut.path))
        => SameToken

C5_Witness ==
    /\ TrackPair
    /\ glob = "s/**"
    /\ LastMut.op = "create"
    /\ LastMut.path = P2(nA, nB)
    /\ nA \in PrunedDirs(Before)
    /\ ~Aliased(Before, LastMut.path)
    /\ SameToken

\* C6: two strongly consistent track_glob invocations return equal tokens
\* if and only if none of the reads the first one registered changed
\* between them.
C6_TokenChangesIffReadChanged ==
    TrackPair =>
        (SameToken <=>
            ~\E dep \in seen[Len(seen) - 1] : ReadChanged(Before, fs, dep))

C6_Witness ==
    /\ TrackPair
    /\ LastMut.op = "write"
    /\ ContentRead(LastMut.path) \in seen[Len(seen) - 1]
    /\ ~SameToken

\* C7 (as claimed): deleting a file that is not a tracked match leaves the
\* token unchanged, wherever the file sits.
C7_UnmatchedDeleteKeepsToken ==
    (/\ TrackPair
     /\ LastMut.op = "delete"
     /\ LastMut.path \notin MatchedFiles(Before))
        => SameToken

\* C7 (amended): deleting a file that is not a tracked match, is not an
\* entry of a directory the walk lists and is not the target of a symlink
\* the walk resolves leaves the token unchanged.
C7_UnlistedDeleteKeepsToken ==
    (/\ TrackPair
     /\ LastMut.op = "delete"
     /\ LastMut.path \notin MatchedFiles(Before)
     /\ Parent(LastMut.path) \notin WalkedDirs(Before)
     /\ LastMut.path \notin ResolvedTargets(Before))
        => SameToken

C7_Witness ==
    /\ TrackPair
    /\ glob = "**"
    /\ ~root.dot
    /\ LastMut.op = "delete"
    /\ LastMut.path = P4(nD, nS, nDotV, nDotG)
    /\ Parent(LastMut.path) \notin WalkedDirs(Before)
    /\ SameToken

\* C8: deleting a File entry of a walked directory whose prefix-joined path
\* matches the glob changes the token of the next strongly consistent
\* track_glob.
C8_MatchedDeleteChangesToken ==
    (/\ TrackAfter
     /\ LastMut.op = "delete"
     /\ LastMut.path \in MatchedFileEntries(Before))
        => (LastObs.ok /\ ~SameToken)

C8_Witness ==
    /\ TrackAfter
    /\ glob = "**/b"
    /\ LastMut.op = "delete"
    /\ LastMut.path = P3(nD, nS, nB)
    /\ LastMut.path \in MatchedFileEntries(Before)
    /\ ~SameToken

\* C9: when a matched entry is a symlink resolving to a file that lies
\* outside the listed directories, modifying the content of that file
\* changes the token of the next strongly consistent track_glob.
C9_LinkTargetWriteChangesToken ==
    (/\ TrackAfter
     /\ LastMut.op = "write"
     /\ Before[LastMut.path].content # fs[LastMut.path].content
     /\ LastMut.path \in MatchedLinkTargets(Before)
     /\ Parent(LastMut.path) \notin WalkedDirs(Before))
        => (LastObs.ok /\ ~SameToken)

C9_Witness ==
    /\ TrackAfter
    /\ root.dir = nD
    /\ LastMut.op = "write"
    /\ LastMut.path = nTJ
    /\ LastMut.path \in MatchedLinkTargets(Before)
    /\ Parent(LastMut.path) \notin WalkedDirs(Before)
    /\ ~SameToken

\* C10 (as claimed): with include_dot_files false, a change to the content
\* of a dot-file, or to anything under a dot-directory, leaves the token
\* unchanged.
C10_DotChangeKeepsToken ==
    (TrackPair /\ ~root.dot /\ DotChange(LastMut)) => SameToken

\* C10 (amended): ... provided the changed path is not at or under the
\* target of a symlink the walk resolves.
C10_UnaliasedDotChangeKeepsToken ==
    (/\ TrackPair
     /\ ~root.dot
     /\ DotChange(LastMut)
     /\ ~Aliased(Before, LastMut.path))
        => SameToken

C10_Witness ==
    /\ TrackPair
    /\ ~root.dot
    /\ glob = "**"
    /\ LastMut.op = "write"
    /\ LastMut.path = P4(nD, nS, nDotV, nDotG)
    /\ DotChange(LastMut)
    /\ ~Aliased(Before, LastMut.path)
    /\ SameToken

(***************************************************************************)
(* Properties of the result structure and of failures                      *)
(***************************************************************************)
\* The sub-walk read mode makes for the entry at entry path p resolving to
\* the directory at path dir.
ReadChild(p, dir) == Key("read", p, dir, TRUE)

\* C11: read_glob applies no dot-file filter: in every finished read walk,
\* every listed entry, dot-named or not, whose prefix-joined path matches
\* the glob is in `results` with its resolved entry, and every listed
\* entry that resolves to a directory the glob can match in has its
\* sub-walk in `inner`.
C11_ReadKeepsDotEntries ==
    \A k \in DOMAIN tasks : (k.mode = "read" /\ tasks[k].st = "done") =>
        \A e \in ReadDir(fs, k.dir).entries :
            LET p == Under(k.prefix, e[1])
                r == ResolveSymlink(fs, e[2])
            IN
            /\ Matches(glob, p) => <<p, r>> \in tasks[k].results
            /\ (r.tag = "Directory" /\ CanMatchInDirectory(glob, p))
                  => /\ \E c \in tasks[k].inner : c[2] = ReadChild(p, r.path)
                     /\ ReadChild(p, r.path) \in DOMAIN tasks

C11_Witness ==
    /\ Fresh
    /\ root.mode = "read"
    /\ root.dir = nD
    /\ glob = "**"
    /\ LastObs.ok
    /\ \E c \in tasks[ReadChild(nS, P2(nD, nS))].inner :
          c[2] = ReadChild(P2(nS, nDotV), P3(nD, nS, nDotV))
    /\ <<P3(nS, nDotV, nDotG), File(P4(nD, nS, nDotV, nDotG))>>
          \in tasks[ReadChild(P2(nS, nDotV), P3(nD, nS, nDotV))].results

\* The entries task k lists that are symlinks resolving to a file.
FileLinks(k) ==
    {e \in ReadDir(fs, k.dir).entries :
        e[2].tag = "Symlink" /\ ResolveSymlink(fs, e[2]).tag = "File"}

\* C12: a symlink that resolves to a file is matched by its own
\* prefix-joined path, not by the path of its target: in every finished
\* read walk, `results` has the link's entry path as a key exactly when
\* that path matches the glob, whatever the target's path, it maps it to
\* File(resolved target path), and no `inner` entry is made for it.
C12_FileLinkMatchedByOwnPath ==
    \A k \in DOMAIN tasks : (k.mode = "read" /\ tasks[k].st = "done") =>
        \A e \in FileLinks(k) :
            LET p == Under(k.prefix, e[1])
                target == RealPath(fs, e[2].path, MaxHops).path
            IN
            /\ Matches(glob, p) <=> p \in ResultKeys(tasks, k)
            /\ \A x \in tasks[k].results : x[1] = p => x[2] = File(target)
            /\ \A c \in tasks[k].inner : c[1] # p /\ c[2].prefix # p

C12_Witness ==
    /\ Fresh
    /\ root = Key("read", <<>>, <<>>, TRUE)
    /\ glob = "*.j"
    /\ Kind(fs, nLJ) = "link"
    /\ ~Matches(glob, P2(nS, nFJ))
    /\ <<nLJ, File(P2(nS, nFJ))>> \in tasks[root].results
    /\ tasks[root].inner = {}

\* C13: when the directory to walk does not exist, read_glob succeeds with
\* empty `results` and `inner`, track_glob succeeds with a token, and the
\* only read either registered is the listing of that directory.
C13_AbsentDirectoryIsEmpty ==
    (Fresh /\ Kind(fs, root.dir) = "none")
        => /\ LastObs.ok
           /\ LastObs.err = <<>>
           /\ tasks[root].results = {}
           /\ tasks[root].inner = {}
           /\ root.mode = "track" => LastObs.token = tasks[root].gen
           /\ seen[Len(seen)] = {DirRead(root.dir)}

C13_Witness ==
    /\ Fresh
    /\ root.mode = "track"
    /\ root.dir = nX
    /\ Kind(fs, nX) = "none"
    /\ LastObs.ok
    /\ seen[Len(seen)] = {DirRead(nX)}

\* The client read the root while the walked directory did not exist, then
\* created an entry in it (and with it the directory), and read again.
CreatedAbsentRoot ==
    /\ AfterMutation
    /\ PrevObs.ok
    /\ Kind(Before, root.dir) = "none"
    /\ LastMut.op = "create"
    /\ IsInside(LastMut.path, root.dir)

\* C14: a walk of an absent directory depends on that directory's listing:
\* after the directory is created with an entry in it, the next strongly
\* consistent track_glob returns a different token and the next strongly
\* consistent read_glob returns the matches of the new listing.
C14_AbsentDirectoryIsTracked ==
    CreatedAbsentRoot
        => /\ LastObs.ok
           /\ root.mode = "track" => ~SameToken
           /\ root.mode = "read" =>
                 ResultKeys(tasks, root) =
                     {q \in AllMatching(fs, glob, root.dir) : Depth(q) = 1}

C14_Witness ==
    /\ CreatedAbsentRoot
    /\ root.mode = "read"
    /\ glob = "**/b"
    /\ LastMut.path = P2(nX, nB)
    /\ tasks[root].results = {<<nB, File(P2(nX, nB))>>}

\* C15 (as claimed): in every ReadGlobResult, at every depth, each key of
\* `inner` is the name of an immediate child directory (a single path
\* segment) and maps to the sub-result of that child.
C15_InnerKeysAreSegments ==
    \A k \in DOMAIN tasks : k.mode = "read" =>
        \A c \in tasks[k].inner :
            \E e \in ReadDir(fs, k.dir).entries :
                /\ c[1] = e[1]
                /\ ResolveSymlink(fs, e[2]).tag = "Directory"
                /\ c[2].dir = ResolveSymlink(fs, e[2]).path

\* C15 (amended): each key of `inner` is the prefix-joined entry path of an
\* immediate child directory, which is the child's bare name exactly when
\* the prefix is empty, and it maps to the sub-result of the walk of that
\* child's resolved directory under that entry path.
C15_InnerKeysAreEntryPaths ==
    \A k \in DOMAIN tasks : k.mode = "read" =>
        \A c \in tasks[k].inner :
            \E e \in ReadDir(fs, k.dir).entries :
                /\ c[1] = Under(k.prefix, e[1])
                /\ (c[1] = e[1]) <=> (k.prefix = <<>>)
                /\ ResolveSymlink(fs, e[2]).tag = "Directory"
                /\ c[2] = ReadChild(c[1], ResolveSymlink(fs, e[2]).path)

C15_Witness ==
    /\ Fresh
    /\ root = Key("read", <<>>, <<>>, TRUE)
    /\ glob = "**"
    /\ <<nS, ReadChild(nS, nS)>> \in tasks[root].inner
    /\ <<P2(nS, nA), ReadChild(P2(nS, nA), P2(nS, nA))>>
          \in tasks[ReadChild(nS, nS)].inner

\* C16: a symlink-loop failure raised by any sub-walk, at any depth, fails
\* the whole invocation: the strongly consistent read of the top-level call
\* is a failure naming a loop link, with no result and no token, and a
\* repeated read after a failed one fails again.
C16_LoopFailureFailsCall ==
    /\ (Fresh /\ \E k \in DOMAIN tasks : tasks[k].st = "failed")
          => /\ ~LastObs.ok
             /\ tasks[root].st = "failed"
             /\ LastObs.token = 0
             /\ LastObs.err \in LoopLinks(fs)
    /\ (AfterMutation /\ ~PrevObs.ok /\ PrevObs.err \in LoopLinks(Before))
          => (~LastObs.ok /\ LastObs.err \in LoopLinks(fs))
    /\ tasks[root].st = "done" => \A k \in DOMAIN tasks : tasks[k].st # "failed"

C16_Witness ==
    /\ AfterMutation
    /\ glob = "**/b"
    /\ fs = Without(ScenDeepLoop.fs, nF)
    /\ root.mode = "read"
    /\ tasks[ReadChild(P2(nS, nA), P2(nS, nA))].st = "failed"
    /\ P2(nS, nB) \in ResultKeys(tasks, ReadChild(nS, nS))
    /\ ~PrevObs.ok
    /\ ~LastObs.ok
    /\ LastObs.err = P3(nS, nA, nL)

\* The loop links sub-walks list, each as <<walk, segment, link path>>.
ListedLoopLinks ==
    UNION {{<<k, e[1], e[2].path>> :
                e \in {x \in ReadDir(fs, k.dir).entries :
                         x[2].tag = "Symlink" /\ x[2].path \in LoopLinks(fs)}} :
           k \in DOMAIN tasks}

\* C17 (as claimed): the path named in a symlink-loop failure is the link's
\* path relative to the traversal root: the prefix-joined entry path under
\* which a sub-walk reached it.
C17_LoopErrorNamesEntryPath ==
    (Fresh /\ ~LastObs.ok)
        => \E l \in ListedLoopLinks : LastObs.err = Under(l[1].prefix, l[2])

\* C17 (amended): the path named in a symlink-loop failure is the link's
\* own filesystem path (the listed directory's path joined with the link's
\* name); it is the prefix-joined entry path only in a sub-walk whose
\* prefix equals the path of the directory it lists.
C17_LoopErrorNamesFsPath ==
    \A k \in DOMAIN tasks : tasks[k].st = "failed" =>
        /\ tasks[k].err \in LoopLinks(fs)
        /\ \E l \in ListedLoopLinks :
              /\ tasks[k].err = l[3]
              /\ l[3] = Under(l[1].dir, l[2])
        /\ \A l \in ListedLoopLinks :
              (l[3] = Under(l[1].prefix, l[2])) <=> (l[1].prefix = l[1].dir)

C17_Witness ==
    /\ Fresh
    /\ root = Key("read", <<>>, nD, TRUE)
    /\ glob = "**"
    /\ tasks[ReadChild(nM, P2(nD, nS))].st = "failed"
    /\ ~LastObs.ok
    /\ LastObs.err = P3(nD, nS, nL)

\* The matching immediate entries of the directory a walk lists, keyed by
\* prefix + "/" + name, or by the bare name under the empty prefix, each
\* with its resolved entry.
LevelMatches(k) ==
    {<<Under(k.prefix, e[1]), ResolveSymlink(fs, e[2])>> :
        e \in {x \in ReadDir(fs, k.dir).entries :
                 Matches(glob, Under(k.prefix, x[1]))}}

\* C18: each ReadGlobResult is one level of a nested structure: `results`
\* of the finished walk of (prefix, directory) is exactly the matching
\* immediate entries of that directory under their prefix-joined keys,
\* never with a leading "/"; a match deeper in the tree is in no
\* ancestor's `results`.
C18_ResultsAreOneLevel ==
    \A k \in DOMAIN tasks : (k.mode = "read" /\ tasks[k].st = "done") =>
        /\ tasks[k].results = LevelMatches(k)
        /\ \A x \in tasks[k].results :
              /\ x[1][1] # "/"
              /\ Parent(x[1]) = k.prefix
              /\ \A a \in DOMAIN tasks :
                    IsInside(k.prefix, a.prefix)
                        => x[1] \notin ResultKeys(tasks, a)

C18_Witness ==
    /\ Fresh
    /\ root = Key("read", <<>>, <<>>, TRUE)
    /\ glob = "**/b"
    /\ fs = ScenBasic.fs
    /\ tasks[root].results = {}
    /\ tasks[ReadChild(nS, nS)].results = {<<P2(nS, nB), File(P2(nS, nB))>>}
    /\ tasks[ReadChild(P2(nS, nA), P2(nS, nA))].results
          = {<<P3(nS, nA, nB), File(P3(nS, nA, nB))>>}

\* Path a is path b or an ancestor of b, compared segment by segment.
IsSelfOrAncestor(a, b) ==
    \/ a = <<>>
    \/ /\ b # <<>>
       /\ Len(Segments(a)) <= Len(Segments(b))
       /\ SubSeq(Segments(b), 1, Len(Segments(a))) = Segments(a)

\* The entry is a symlink to a directory that is the link itself or one of
\* the directories the link lies in.
LinkToSelfOrAncestor(f, entry) ==
    /\ ResolveSymlink(f, entry) # entry
    /\ ResolveSymlink(f, entry).tag = "Directory"
    /\ IsSelfOrAncestor(ResolveSymlink(f, entry).path, entry.path)

\* The entries a walk classifies: those of its listing the dot filter does
\* not skip.
ClassifiedBy(k) ==
    {e[2] : e \in {x \in ReadDir(fs, k.dir).entries :
                     k.dot \/ ~StartsWithDot(x[1])}}

\* C19: resolve_symlink_safely fails if and only if the entry resolved to
\* something different, the resolved entry is a Directory and the link's
\* own path is inside or equal to the resolved path, and otherwise returns
\* the resolved entry: for every entry of the filesystem, and so in every
\* walk, which has failed naming such a link of its listing or of a
\* sub-walk's, or else classifies no such link when it is finished.
C19_FailsIffLinkToSelfOrAncestor ==
    /\ \A p \in DOMAIN fs :
          LET r == resolve_symlink_safely(fs, RawEntry(fs, p)) IN
          /\ ~r.ok <=> LinkToSelfOrAncestor(fs, RawEntry(fs, p))
          /\ r.ok => r.entry = ResolveSymlink(fs, RawEntry(fs, p))
    /\ \A k \in DOMAIN tasks :
          /\ tasks[k].st = "done" =>
                \A e \in ClassifiedBy(k) : ~LinkToSelfOrAncestor(fs, e)
          /\ tasks[k].st = "failed" =>
                LinkToSelfOrAncestor(fs, Symlink(tasks[k].err))

C19_Witness ==
    /\ Fresh
    /\ root.mode = "track"
    /\ glob = "**"
    /\ LastObs.ok
    /\ fs = ScenKinds.fs
    /\ Key("track", nL, nA, root.dot) \in DOMAIN tasks
    /\ Key("track", nM, nA, root.dot) \in DOMAIN tasks
    /\ resolve_symlink_safely(fs, Symlink(P2(nD, nL))).entry = Directory(nA)
    /\ resolve_symlink_safely(fs, Symlink(P2(nD, nM))).entry = Directory(nA)

\* The (prefix, resolved directory) pairs the invocation descended into:
\* the top-level walk and every sub-walk it or a sub-walk called.
Descended == {<<k.prefix, k.dir>> : k \in DOMAIN tasks}

\* The pairs of the classify-and-prune walk of directory dir under prefix
\* with every name included: dir itself and, to `fuel` levels, every entry
\* that resolves to a directory without being a link to itself or to an
\* ancestor, and in which the glob can match.
RECURSIVE GuardedWalk(_, _, _, _, _)
GuardedWalk(f, g, prefix, dir, fuel) ==
    {<<prefix, dir>>} \cup
    (IF fuel = 0 THEN {}
     ELSE UNION {GuardedWalk(f, g, Under(prefix, e[1]),
                             ResolveSymlink(f, e[2]).path, fuel - 1) :
                 e \in {x \in ReadDir(f, dir).entries :
                          /\ ResolveSymlink(f, x[2]).tag = "Directory"
                          /\ ~LinkToSelfOrAncestor(f, x[2])
                          /\ CanMatchInDirectory(g, Under(prefix, x[1]))}})

WalkOfRoot == GuardedWalk(fs, glob, <<>>, root.dir, MaxDepth + 1)

\* That walk lists a symlink to itself or to an ancestor.
WalkMeetsLoop ==
    \E w \in WalkOfRoot : \E e \in ReadDir(fs, w[2]).entries :
        LinkToSelfOrAncestor(fs, e[2])

\* C20 (as claimed): with include_dot_files = true, what either mode
\* descends into and whether it fails are determined by the filesystem and
\* the glob alone, hence the same in both modes: the invocation descends
\* into the pairs of the classify-and-prune walk, and fails exactly when
\* that walk meets a loop link.
C20_SameDescentOnEveryInput ==
    (Fresh /\ root.dot)
        => /\ Descended = WalkOfRoot
           /\ ~LastObs.ok <=> WalkMeetsLoop

\* C20 (amended): with include_dot_files = true, an invocation of either
\* mode that completes does not succeed when the classify-and-prune walk
\* meets a loop link, and fails with the symlink-loop error only then;
\* read_glob fails in no other case, track_glob also when the content read
\* of a matched file fails. When an invocation succeeds it has descended
\* into exactly the pairs of that walk, in both modes; when it fails it has
\* descended into some of them, read_glob having stopped at the first
\* failure.
C20_SameDescentWhenSucceeding ==
    (Fresh /\ root.dot)
        => /\ WalkMeetsLoop => ~LastObs.ok
           /\ tasks[root].st = "failed" => WalkMeetsLoop
           /\ (root.mode = "read" /\ ~WalkMeetsLoop) => LastObs.ok
           /\ (root.mode = "track" /\ ~WalkMeetsLoop /\ ~LastObs.ok)
                  => ReadFails(fs, LastObs.err)
           /\ LastObs.ok => Descended = WalkOfRoot
           /\ ~LastObs.ok => Descended \subseteq WalkOfRoot

C20_Witness ==
    /\ Fresh
    /\ root = Key("track", <<>>, nD, TRUE)
    /\ fs = ScenKinds.fs
    /\ glob = "**/b"
    /\ LastObs.ok
    /\ Descended = {<<<<>>, nD>>, <<nL, nA>>, <<nM, nA>>}
    /\ Descended = WalkOfRoot

(***************************************************************************)
(* Properties of the reads, the joins and the memoization                  *)
(***************************************************************************)
\* The entries of the listing of walk k that the dot filter of k does not
\* skip, as <<entry path, raw entry, resolved entry>>.
LevelEntries(k) ==
    {<<Under(k.prefix, e[1]), e[2], ResolveSymlink(fs, e[2])>> :
        e \in {x \in ReadDir(fs, k.dir).entries :
                 k.dot \/ ~StartsWithDot(x[1])}}

\* The content reads, type reads and sub-trackings specified for a level.
ContentReadsOf(es) ==
    {x[3].path : x \in {y \in es : y[3].tag = "File" /\ Matches(glob, y[1])}}

TypeReadsOf(es) ==
    {x[3].path : x \in {y \in es : y[3].tag = "Other" /\ Matches(glob, y[1])}}

SubTrackingsOf(es, dot) ==
    {Key("track", x[1], x[3].path, dot) : x \in {y \in es :
        y[3].tag = "Directory" /\ CanMatchInDirectory(glob, y[1])}}

\* The symlinks of a level that are resolved.
ResolutionsOf(es) == {x[2].path : x \in {y \in es : y[2].tag = "Symlink"}}

LevelContentReads(k) == ContentReadsOf(LevelEntries(k))
LevelTypeReads(k) == TypeReadsOf(LevelEntries(k))
LevelSubTrackings(k) == SubTrackingsOf(LevelEntries(k), k.dot)
LevelResolutions(k) == ResolutionsOf(LevelEntries(k))

\* C21 (as claimed): the reads a finished track walk registered are
\* exactly the listing, a content read per matching File, a type read per
\* matching Other and a sub-tracking per Directory the glob can match in;
\* every other entry registers nothing.
C21_ReadsAreListingContentType ==
    \A k \in DOMAIN tasks : (k.mode = "track" /\ tasks[k].st = "done") =>
        /\ FsDeps(tasks, k) =
               {DirRead(k.dir)}
                   \cup {ContentRead(p) : p \in LevelContentReads(k)}
                   \cup {TypeRead(p) : p \in LevelTypeReads(k)}
        /\ tasks[k].completions = LevelSubTrackings(k)

\* C21 (amended): ... and, in addition, the resolution of every symlink of
\* the listing that is not skipped, whatever it resolves to and whether or
\* not it matches.
C21_ReadsIncludeResolutions ==
    \A k \in DOMAIN tasks : (k.mode = "track" /\ tasks[k].st = "done") =>
        LET es == LevelEntries(k) IN
        /\ tasks[k].reads = ContentReadsOf(es)
        /\ tasks[k].types = TypeReadsOf(es)
        /\ tasks[k].links = ResolutionsOf(es)
        /\ tasks[k].completions = SubTrackingsOf(es, k.dot)
        /\ FsDeps(tasks, k) =
               {DirRead(k.dir)}
                   \cup {ContentRead(p) : p \in tasks[k].reads}
                   \cup {TypeRead(p) : p \in tasks[k].types}
                   \cup {ResolveRead(p) : p \in tasks[k].links}

C21_Witness ==
    /\ Fresh
    /\ root = Key("track", <<>>, nD, TRUE)
    /\ fs = ScenInvalidations.fs
    /\ glob = "**"
    /\ tasks[root].st = "done"
    /\ tasks[root].reads = {P2(nD, nF), nTJ}
    /\ tasks[root].links = {P2(nD, nLJ)}
    /\ tasks[root].completions = {Key("track", nS, P2(nD, nS), TRUE)}

\* The walks of the invocation whose listing holds an entry classified
\* Error.
HasErrorEntry(k) ==
    \E e \in ReadDir(fs, k.dir).entries : ResolveSymlink(fs, e[2]) = ErrorEntry

WalksWithError == {k \in DOMAIN tasks : HasErrorEntry(k)}

\* The paths of the entries read_dir itself reports as Error.
ErrorPaths == {p \in DOMAIN fs : fs[p].kind = "error"}

LevelInnerKeys(k) ==
    {x[1] : x \in {y \in LevelEntries(k) :
        y[3].tag = "Directory" /\ CanMatchInDirectory(glob, y[1])}}

\* C23: the outcome of read_glob does not depend on the order in which the
\* entries of a directory are processed nor on the order in which
\* sub-walks finish: in whatever order the invocation ran, when it has
\* returned a result its nodes are those of the classify-and-prune walk
\* and each node's `results` and `inner` key set are the ones the
\* filesystem and the glob determine.
C23_ReadOutcomeIsOrderIndependent ==
    (Fresh /\ root.mode = "read" /\ LastObs.ok)
        => /\ Descended = WalkOfRoot
           /\ \A k \in DOMAIN tasks :
                 /\ tasks[k].results = LevelMatches(k)
                 /\ InnerKeys(tasks, k) = LevelInnerKeys(k)

C23_Witness ==
    /\ Fresh
    /\ root = Key("read", <<>>, <<>>, TRUE)
    /\ fs = ScenBasic.fs
    /\ glob = "**"
    /\ LastObs.ok
    /\ ResultKeys(tasks, root) = {nF, nS, nA}
    /\ InnerKeys(tasks, root) = {nS, nA}
    /\ InnerKeys(tasks, ReadChild(nS, nS)) = {P2(nS, nA)}

\* The entries of the level of walk k that are symlinks to a directory the
\* glob can match in, as <<entry path, raw entry, resolved entry>>.
DirectoryLinks(k) ==
    {x \in LevelEntries(k) :
        /\ x[2].tag = "Symlink"
        /\ x[3].tag = "Directory"
        /\ CanMatchInDirectory(glob, x[1])}

\* The entries of directory dir keyed under the path p, each with its
\* resolved entry.
KeyedUnder(p, dir) ==
    {<<P2(p, e[1]), ResolveSymlink(fs, e[2])>> : e \in ReadDir(fs, dir).entries}

\* C24: a symlink that resolves to a directory is walked like a real
\* directory: a finished walk has made, for each such link of its level,
\* the sub-walk that lists the resolved target directory under the link's
\* own prefix-joined path (stored in `inner` in read mode, joined in track
\* mode); in read mode the link's key maps to Directory(target), and every
\* key of the sub-walk's `results` is the link's path joined with an entry
\* name of the target, mapped to that entry resolved.
C24_DirectoryLinkIsWalked ==
    \A k \in DOMAIN tasks : tasks[k].st = "done" =>
        \A x \in DirectoryLinks(k) :
            /\ k.mode = "track" =>
                  Key("track", x[1], x[3].path, k.dot) \in tasks[k].completions
            /\ k.mode = "read" =>
                  /\ <<x[1], ReadChild(x[1], x[3].path)>> \in tasks[k].inner
                  /\ Matches(glob, x[1]) =>
                        <<x[1], Directory(x[3].path)>> \in tasks[k].results
                  /\ tasks[ReadChild(x[1], x[3].path)].results
                        \subseteq KeyedUnder(x[1], x[3].path)
                  /\ \A y \in KeyedUnder(x[1], x[3].path) :
                        Matches(glob, y[1]) =>
                            y \in tasks[ReadChild(x[1], x[3].path)].results

C24_Witness ==
    /\ Fresh
    /\ root = Key("read", <<>>, nD, TRUE)
    /\ fs = ScenKinds.fs
    /\ glob = "**/b"
    /\ LastObs.ok
    /\ <<nL, Symlink(P2(nD, nL)), Directory(nA)>> \in DirectoryLinks(root)
    /\ tasks[ReadChild(nL, nA)].results = {<<P2(nL, nB), File(P2(nA, nB))>>}
    /\ tasks[ReadChild(nM, nA)].results = {<<P2(nM, nB), File(P2(nA, nB))>>}

\* What a track walk collected for its join: the sub-trackings that have
\* not succeeded, and the content reads that fail.
UnfinishedSubTrackings(k) == {c \in tasks[k].completions : tasks[c].st # "done"}
FailingReads(k) == {p \in tasks[k].reads : ReadFails(fs, p)}

\* C25: a track walk has a token only when every content read, type read
\* and sub-tracking it collected has completed successfully, in whatever
\* order they completed; a walk that has not succeeded has no token, and
\* an invocation with a failing content read or sub-tracking at some level
\* fails.
C25_TokenOnlyAfterJoin ==
    /\ \A k \in DOMAIN tasks : k.mode = "track" =>
          /\ tasks[k].st = "done" =>
                /\ tasks[k].token = tasks[k].gen
                /\ UnfinishedSubTrackings(k) = {}
                /\ FailingReads(k) = {}
          /\ tasks[k].st # "done" => tasks[k].token = 0
    /\ (Fresh /\ root.mode = "track"
          /\ \E k \in DOMAIN tasks :
                \/ FailingReads(k) # {}
                \/ \E c \in tasks[k].completions :
                      tasks[c].st \in {"failed", "ioerror"})
          => (~LastObs.ok /\ LastObs.token = 0)

C25_Witness ==
    /\ Fresh
    /\ root.mode = "track"
    /\ fs = ScenUnreadable.fs
    /\ glob = "**"
    /\ tasks[Key("track", nS, nS, root.dot)].st = "done"
    /\ tasks[Key("track", nS, nS, root.dot)].token = 1
    /\ FailingReads(root) = {nFJ}
    /\ tasks[root].st = "ioerror"
    /\ LastObs.token = 0


\* The filesystem before and after the i-th mutation.
FsBefore(i) == muts[i].before
FsAfter(i) == IF i = Len(muts) THEN fs ELSE muts[i + 1].before

\* The reads the body of walk k makes of filesystem f when it runs to its
\* end: the listing, the resolution of the symlinks it does not skip, and
\* in track mode the content and type reads of its matches.
OwnReads(f, k) ==
    LET es == {x \in ReadDir(f, k.dir).entries :
                  k.mode = "read" \/ k.dot \/ ~StartsWithDot(x[1])}
        files == {x \in es : /\ k.mode = "track"
                             /\ ResolveSymlink(f, x[2]).tag = "File"
                             /\ Matches(glob, Under(k.prefix, x[1]))}
        others == {x \in es : /\ k.mode = "track"
                              /\ ResolveSymlink(f, x[2]).tag = "Other"
                              /\ Matches(glob, Under(k.prefix, x[1]))}
    IN  {DirRead(k.dir)}
            \cup {ResolveRead(x[2].path) : x \in {y \in es : y[2].tag = "Symlink"}}
            \cup {ContentRead(ResolveSymlink(f, x[2]).path) : x \in files}
            \cup {TypeRead(ResolveSymlink(f, x[2]).path) : x \in others}

OwnChanged(i, k) ==
    \E dep \in OwnReads(FsBefore(i), k) : ReadChanged(FsBefore(i), FsAfter(i), dep)

\* Walk d is walk k or a sub-walk below it.
IsSubWalkOf(d, k) ==
    /\ d.mode = k.mode
    /\ d.dot = k.dot
    /\ \/ d = k
       \/ k.prefix = <<>> /\ d.prefix # <<>>
       \/ StartsWith(d.prefix, k.prefix \o Slash)

\* Per mutation, the walks one of whose own reads it changed.
Changed == [i \in 1..Len(muts) |-> {d \in DOMAIN tasks : OwnChanged(i, d)}]

\* The mutations that changed a read of walk k or of a sub-walk below it.
AffectingOf(changed, k) ==
    {i \in 1..Len(muts) : \E d \in changed[i] : IsSubWalkOf(d, k)}

Affecting(k) == AffectingOf(Changed, k)

\* A sub-walk that its caller has called again in a later execution of the
\* caller's body.
CalledAgain(k) ==
    \E c \in DOMAIN tasks : /\ tasks[c].gen > tasks[k].gen
                            /\ k \in Callees(tasks, c)

\* C26: the body of a sub-walk is executed once, and once more only for a
\* mutation that changed one of its own reads or a read of a sub-walk below
\* it: before any mutation every sub-walk is in its first execution, and
\* at a strongly consistent read after a mutation a sub-walk that no
\* mutation affected is still in its first execution, also when its caller
\* was executed again and called it again, and its token is the one of the
\* first execution.
C26_SubWalksAreMemoized ==
    LET changed == Changed IN
    \A k \in DOMAIN tasks :
        /\ Len(muts) = 0 => tasks[k].gen = 1
        /\ (AfterMutation /\ tasks[k].gen > 1)
              => tasks[k].gen <= 1 + Cardinality(AffectingOf(changed, k))
        /\ (/\ AfterMutation
            /\ k.mode = "track"
            /\ tasks[k].st = "done"
            /\ tasks[k].token # 1)
              => AffectingOf(changed, k) # {}

C26_Witness ==
    /\ AfterMutation
    /\ root = Key("track", <<>>, <<>>, TRUE)
    /\ fs = ApplyMutation(ScenBasic.fs, "write", P3(nS, nA, nB))
    /\ glob = "**"
    /\ LastObs.ok
    /\ tasks[root].gen = 2
    /\ tasks[Key("track", nS, nS, TRUE)].gen = 2
    /\ tasks[Key("track", P2(nS, nA), P2(nS, nA), TRUE)].gen = 2
    /\ tasks[Key("track", nA, nA, TRUE)].gen = 1
    /\ tasks[Key("track", nA, nA, TRUE)].token = 1
    /\ CalledAgain(Key("track", nA, nA, TRUE))
    /\ Affecting(Key("track", nA, nA, TRUE)) = {}


\* The symlinks listed by the track walks, skipped or not.
ListedLinks(k) == {e[2] : e \in {x \in ReadDir(fs, k.dir).entries : x[2].tag = "Symlink"}}

\* C27: in track mode the dispatch never receives an unresolved Symlink:
\* what resolve_symlink_safely returns for an entry a track walk has still
\* to dispatch is a File, a Directory, an Other or an Error entry, and no
\* track walk ends in the unreachable branch.
C27_DispatchNeverSeesSymlink ==
    \A k \in DOMAIN tasks :
        /\ tasks[k].st # "panicked"
        /\ k.mode = "track" =>
              \A e \in tasks[k].todo :
                  LET r == resolve_symlink_safely(fs, e[2]) IN
                  r.ok => r.entry.tag \in {"File", "Directory", "Other", "Error"}

C27_Witness ==
    /\ Fresh
    /\ root = Key("track", <<>>, nD, TRUE)
    /\ fs = ScenKinds.fs
    /\ glob = "**"
    /\ LastObs.ok
    /\ ListedLinks(root) = {Symlink(P2(nD, nK)), Symlink(P2(nD, nL)), Symlink(P2(nD, nM))}
    /\ tasks[root].links = {P2(nD, nK), P2(nD, nL), P2(nD, nM)}
    /\ ResolveSymlink(fs, Symlink(P2(nD, nK))) = ErrorEntry
    /\ tasks[root].todo = {}


\* The dot-named symlinks of the listing of walk k that point at the
\* directory they lie in or at an ancestor of it.
DotLoopLinks(k) ==
    {e[2].path : e \in {x \in ReadDir(fs, k.dir).entries :
        StartsWithDot(x[1]) /\ LinkToSelfOrAncestor(fs, x[2])}}

\* C28: track mode with include_dot_files = false skips a dot-named entry
\* before resolving it: such a walk resolves no dot-named symlink and never
\* fails on one, and the invocation succeeds when the only loop links of
\* the directories it lists are dot-named; a read walk, or a track walk
\* with include_dot_files = true, that lists a dot-named loop link fails
\* with the symlink-loop error.
C28_DotLoopLinkIsSkipped ==
    /\ \A k \in DOMAIN tasks :
          /\ (k.mode = "track" /\ ~k.dot) =>
                /\ \A p \in tasks[k].links : ~StartsWithDot(FileName(p))
                /\ tasks[k].st = "failed" => tasks[k].err \notin DotLoopLinks(k)
          /\ (/\ k.mode = "read" \/ k.dot
              /\ Settled(tasks[k])
              /\ DotLoopLinks(k) # {})
                => /\ tasks[k].st = "failed"
                   /\ LinkToSelfOrAncestor(fs, Symlink(tasks[k].err))
    /\ (/\ Fresh
        /\ root.mode = "track"
        /\ ~root.dot
        /\ \E k \in DOMAIN tasks : DotLoopLinks(k) # {}
        /\ ReachedLoopLinks(fs) = {}
        /\ ~\E p \in DOMAIN fs : ReadFails(fs, p))
          => LastObs.ok

C28_Witness ==
    /\ Fresh
    /\ root = Key("track", <<>>, <<>>, FALSE)
    /\ fs = ScenDotLoop.fs
    /\ glob = "**"
    /\ DotLoopLinks(Key("track", nS, nS, FALSE)) = {P2(nS, nDotL)}
    /\ tasks[Key("track", nS, nS, FALSE)].st = "done"
    /\ tasks[Key("track", nS, nS, FALSE)].links = {}
    /\ tasks[Key("track", nS, nS, FALSE)].reads = {P2(nS, nB)}
    /\ LastObs.ok


(***************************************************************************)
(* Properties of load_next_js_template                                     *)
(***************************************************************************)
\* The pieces of the returned source of the given kinds.
SourcePieces(ts) == {i \in 1..Len(tpl.source) : tpl.source[i].t \in ts}

\* A relative import of the template file was rewritten.
ImportRewritten ==
    /\ \E i \in 1..Len(tpl.file.content) : tpl.file.content[i].t = "from_next"
    /\ SourcePieces({"from_abs"}) # {}
    /\ SourcePieces({"from_next", "from_out"}) = {}

\* The template file holds the marker of kind ts for the key.
InTemplate(ts, key) ==
    \E i \in 1..Len(tpl.file.content) :
        tpl.file.content[i].t \in ts /\ tpl.file.content[i].key = key

\* A value of the map holds the marker of kind ts for the key.
InValue(map, ts, key) ==
    \E j \in 1..Len(map) : \E i \in 1..Len(map[j].value) :
        map[j].value[i].t \in ts /\ map[j].value[i].key = key

\* C29 (as claimed): on success the source holds no template variable, no
\* INJECT marker and no OPTIONAL_IMPORT marker, a relative import was
\* rewritten, and every supplied key was found in the template; a call
\* that fails returns no source.
C29_SuccessLeavesNothing ==
    /\ tpl.pc = "ok" =>
          /\ SourcePieces({"qvar", "var"}) = {}
          /\ SourcePieces({"inject"}) = {}
          /\ SourcePieces({"optional", "optional_ns"}) = {}
          /\ ImportRewritten
          /\ \A j \in 1..Len(tpl.replacements) :
                InTemplate({"qvar"}, tpl.replacements[j].key)
          /\ \A j \in 1..Len(tpl.injections) :
                InTemplate({"inject"}, tpl.injections[j].key)
          /\ \A j \in 1..Len(tpl.imports) :
                InTemplate({"optional", "optional_ns"}, tpl.imports[j].key)
    /\ tpl.pc = "err" => tpl.source = NoSource

\* C29 (amended): on success nothing the template file wrote is left over:
\* the source holds no OPTIONAL_IMPORT marker, no INJECT marker except in
\* an import path that was substituted, and no template variable except in
\* an injection or an import path that was substituted; a relative import
\* was rewritten; and every supplied key was found when its turn came, in
\* the template or in a value substituted before; a call that fails
\* returns no source.
C29_SuccessLeavesNoTemplateMarker ==
    /\ tpl.pc = "ok" =>
          /\ \A i \in SourcePieces({"qvar", "var"}) :
                tpl.source[i].o \in {"injection", "import"}
          /\ \A i \in SourcePieces({"inject"}) : tpl.source[i].o = "import"
          /\ SourcePieces({"optional", "optional_ns"}) = {}
          /\ ImportRewritten
          /\ \A j \in 1..Len(tpl.replacements) :
                InTemplate({"qvar"}, tpl.replacements[j].key)
          /\ \A j \in 1..Len(tpl.injections) :
                \/ InTemplate({"inject"}, tpl.injections[j].key)
                \/ InValue(tpl.replacements, {"inject"}, tpl.injections[j].key)
          /\ \A j \in 1..Len(tpl.imports) :
                InTemplate({"optional", "optional_ns"}, tpl.imports[j].key)
    /\ tpl.pc = "err" => tpl.source = NoSource

C29_Witness ==
    /\ tpl.pc = "ok"
    /\ tpl.file.content =
          <<Tok("from_next", "", "template"), Tok("inject", kInject, "template")>>
    /\ tpl.injections =
          <<[key |-> kInject, value |-> <<Tok("var", kVar, "injection")>>]>>
    /\ tpl.source =
          <<Tok("from_abs", "", "function"), Tok("const", kInject, "injection"),
            Tok("var", kVar, "injection"), Tok("nl", "", "function")>>

====
